---------------------------- MODULE Spec2Model ----------------------------
(***************************************************************************)
(* Model of the maize-intelligence analytics layer (ml/analytics):         *)
(*   validators.py      ValidationResult, the four dataset validators and  *)
(*                      the batch entry point validate_all_data            *)
(*   core_analytics.py  the report generators                              *)
(*   config.py          the enumerations and thresholds they consult       *)
(*                                                                         *)
(* Tables (pandas DataFrames) are records [columns, rows]: columns is the  *)
(* ordered column index, rows a sequence of functions column -> cell.      *)
(* Numeric cells are integers, a missing numeric cell is NaN; text cells   *)
(* are strings, a missing text cell is NaNText; date cells are records     *)
(* that keep apart the CSV string, the parsed Timestamp and the missing    *)
(* value.  Messages of a ValidationResult are pairs <<kind, names>>: the   *)
(* kind of the formatted message and the set of names it mentions (the     *)
(* record counts printed inside the text are not modelled).                *)
(***************************************************************************)
EXTENDS Integers, Sequences, FiniteSets, TLC

VARIABLES
    pc,             \* position of the caller: which call is pending / done
    result,         \* the ValidationResult object under construction / returned
    calls,          \* log of the ValidationResult methods called on result
    df,             \* the DataFrame object handed to a validator (mutable)
    df_in,          \* the contents of df when the validator was entered
    forecast_type,  \* second argument of validate_forecast_data
    files,          \* the backing files: dataset name -> table or NoFile
    results,        \* the dict returned by validate_all_data
    now,            \* datetime.now(), in half days since 1970-01-01 00:00
    args,           \* arguments of the pending analytics call
    report          \* the record returned by an analytics function

vars == <<pc, result, calls, df, df_in, forecast_type, files, results,
          now, args, report>>

----------------------------------------------------------------------------
(* Bounds *)

MaxCalls == 4       \* ValidationResult method calls in one behaviour
MaxRows == 5        \* rows of a production or storage table handed to a validator
MaxPriceRows == 3   \* rows of a price table handed to validate_price_data
MaxForecastRows == 3 \* rows of a forecast table handed to validate_forecast_data
MaxBatchRows == 1   \* rows of a data file read by validate_all_data

----------------------------------------------------------------------------
(* Generic helpers *)

Range(s) == {s[i] : i \in DOMAIN s}

RECURSIVE SumSet(_, _)
\* sum of f[x] over the finite set S
SumSet(f, S) ==
    IF S = {} THEN 0
    ELSE LET x == CHOOSE y \in S : TRUE IN f[x] + SumSet(f, S \ {x})

RECURSIVE SortedSeqs(_, _)
\* the non-decreasing sequences of length n over 1..k
SortedSeqs(n, k) ==
    IF n = 0 THEN {<<>>}
    ELSE UNION {{Append(s, j) : s \in SortedSeqs(n - 1, j)} : j \in 1..k}

NaN == 0 - 999          \* missing numeric cell (float nan)
NaNText == "<NaN>"      \* missing text cell
NoTable == [columns |-> <<>>, rows |-> <<>>]
NoFile == [exists |-> FALSE, table |-> NoTable]    \* a path with no file
File(t) == [exists |-> TRUE, table |-> t]           \* a CSV file holding t
NoReport == [status |-> "none"]

isnull(v) == v = NaN
isnullText(v) == v = NaNText

\* comparisons of a cell with a number: every comparison with nan is False
lt(v, x) == ~isnull(v) /\ ~isnull(x) /\ v < x
le(v, x) == ~isnull(v) /\ ~isnull(x) /\ v <= x
gt(v, x) == ~isnull(v) /\ ~isnull(x) /\ v > x
eq(v, x) == ~isnull(v) /\ ~isnull(x) /\ v = x

----------------------------------------------------------------------------
(* config.py *)

REGIONS == {"Mbeya", "Iringa", "Ruvuma", "Rukwa", "Morogoro", "Dodoma",
            "Arusha", "Kilimanjaro", "Dar es Salaam", "Mwanza", "Shinyanga"}

MARKETS == {"Mbeya Central", "Iringa Central", "Songea Central",
            "Sumbawanga Central", "Morogoro Central", "Dodoma Central",
            "Arusha Central", "Moshi Central", "Kariakoo", "Mwenge",
            "Mwanza Central", "Shinyanga Central"}

QUALITY_GRADES == {"A", "B", "C"}

PRICE_MIN_NORMAL == 800
PRICE_MAX_NORMAL == 2500

----------------------------------------------------------------------------
(* validators.py: class ValidationResult *)

NewValidationResult == [errors |-> <<>>, warnings |-> <<>>, info |-> <<>>]

add_error(r, message) == [r EXCEPT !.errors = Append(@, message)]

add_warning_as_error(r, message) == [r EXCEPT !.errors = Append(@, message)]

add_warning(r, message) == [r EXCEPT !.warnings = Append(@, message)]

add_info_if_valid(r, message) ==
    IF Len(r.errors) = 0 THEN [r EXCEPT !.info = Append(@, message)] ELSE r

add_info(r, message) == [r EXCEPT !.info = Append(@, message)]

is_valid_no_warnings(r) == Len(r.errors) = 0 /\ Len(r.warnings) = 0

is_valid(r) == Len(r.errors) = 0

to_dict(r) ==
    [valid |-> is_valid(r), errors |-> r.errors,
     warnings |-> r.warnings, info |-> r.info]

Msg(kind) == <<kind, {}>>
MsgAbout(kind, names) == <<kind, names>>
Kinds(msgs) == {msgs[i][1] : i \in DOMAIN msgs}

----------------------------------------------------------------------------
(* Calendar: days since 1970-01-01 <-> (year, month, day) *)

days_from_civil(y, m, d) ==
    LET yy == IF m <= 2 THEN y - 1 ELSE y
        era == yy \div 400
        yoe == yy - era * 400
        mp == (m + 9) % 12
        doy == (153 * mp + 2) \div 5 + d - 1
        doe == yoe * 365 + yoe \div 4 - yoe \div 100 + doy
    IN era * 146097 + doe - 719468

civil_from_days(z0) ==
    LET z == z0 + 719468
        era == z \div 146097
        doe == z - era * 146097
        yoe == (doe - doe \div 1460 + doe \div 36524 - doe \div 146096) \div 365
        doy == doe - (365 * yoe + yoe \div 4 - yoe \div 100)
        mp == (5 * doy + 2) \div 153
        d == doy - (153 * mp + 2) \div 5 + 1
        m == IF mp < 10 THEN mp + 3 ELSE mp - 9
        y == yoe + era * 400 + (IF m <= 2 THEN 1 ELSE 0)
    IN [year |-> y, month |-> m, day |-> d]

Today == days_from_civil(2024, 6, 15)

\* datetime values are instants counted in half days, so that a
\* datetime.now() taken during a day is told from the midnight that a date
\* parses to
PerDay == 2
Midnight(d) == d * PerDay
timedelta(days) == days * PerDay

\* datetime.now(): exactly midnight of Today, or later that day
Clocks == {Midnight(Today), Midnight(Today) + 1}

----------------------------------------------------------------------------
(* Date cells and pd.to_datetime *)

StrDate(d) == [kind |-> "str", day |-> d]       \* a parseable date string
BadDate == [kind |-> "bad", day |-> 0]          \* an unparseable string
NaNDate == [kind |-> "nan", day |-> 0]          \* a missing cell
Timestamp(d) == [kind |-> "ts", day |-> d]      \* a parsed datetime64 value
NaT == [kind |-> "nat", day |-> 0]              \* the missing datetime64 value

isnullDate(c) == c.kind \in {"nan", "nat"}

\* a pd.to_datetime that lets every string pass
to_datetime_never_raises(col) == \E i \in DOMAIN col : col[i].kind = "none"

\* pd.to_datetime raises on a column holding a string it cannot parse
to_datetime_raises(col) == \E i \in DOMAIN col : col[i].kind = "bad"

to_datetime_cell(c) ==
    CASE c.kind = "str" -> Timestamp(c.day)
      [] c.kind = "nan" -> NaT
      [] OTHER -> c

to_datetime(col) == [i \in DOMAIN col |-> to_datetime_cell(col[i])]

\* df['date'] > t, df['date'] >= t: comparisons with NaT are False
date_gt(c, t) == c.kind = "ts" /\ Midnight(c.day) > t
date_ge(c, t) == c.kind = "ts" /\ Midnight(c.day) >= t
date_lt(c, t) == c.kind = "ts" /\ Midnight(c.day) < t

----------------------------------------------------------------------------
(* DataFrame helpers *)

DateColumns == {"date", "ds", "month"}
TextColumns == {"region", "market", "quality_grade", "grade", "warehouse_id"}

len(t) == Len(t.rows)

Columns(t) == Range(t.columns)

Column(t, c) == [i \in DOMAIN t.rows |-> t.rows[i][c]]

\* df[c] = col: replaces the column, or appends it to the column index
SetColumn(t, c, col) ==
    LET cols == IF c \in Columns(t) THEN t.columns ELSE Append(t.columns, c)
    IN [columns |-> cols,
        rows |-> [i \in DOMAIN t.rows |->
                    [k \in Range(cols) |-> IF k = c THEN col[i] ELSE t.rows[i][k]]]]

DropColumn(t, c) ==
    LET keep == SelectSeq(t.columns, LAMBDA k : k # c)
    IN [columns |-> keep,
        rows |-> [i \in DOMAIN t.rows |-> [k \in Range(keep) |-> t.rows[i][k]]]]

CellIsNull(c, v) ==
    IF c \in DateColumns THEN isnullDate(v)
    ELSE IF c \in TextColumns THEN isnullText(v)
    ELSE IF c = "utilization" THEN v.n = 0 /\ v.d = 0
    ELSE isnull(v)

\* df.isnull().sum()[c]
NullCount(t, c) == Cardinality({i \in DOMAIN t.rows : CellIsNull(c, t.rows[i][c])})

\* Series.nunique(): distinct non-missing values
nunique(t, c) == Cardinality({t.rows[i][c] : i \in DOMAIN t.rows} \ {NaNText})

\* the values of a numeric column that are not missing, by row
NotNull(col) == {i \in DOMAIN col : ~isnull(col[i])}

\* k-th smallest (k = 0, 1, ...) of the non-missing values of col
KthSmallest(col, k) ==
    LET I == NotNull(col)
    IN CHOOSE v \in {col[i] : i \in I} :
         /\ Cardinality({i \in I : col[i] < v}) <= k
         /\ k < Cardinality({i \in I : col[i] <= v})

\* 4 * Series.quantile(num / 4) with linear interpolation; NaN when no value
quantile4(col, num) ==
    LET n == Cardinality(NotNull(col))
        pos4 == (n - 1) * num
        lo == KthSmallest(col, pos4 \div 4)
        hi == KthSmallest(col, IF pos4 \div 4 + 1 <= n - 1 THEN pos4 \div 4 + 1
                                 ELSE n - 1)
    IN IF n = 0 THEN NaN ELSE 4 * lo + (pos4 % 4) * (hi - lo)

\* Series.sum(): missing values are skipped
sum(col) == SumSet(col, NotNull(col))

\* the values of a text column in order of first appearance (Series.unique())
RECURSIVE unique_from(_, _, _)
unique_from(col, i, seen) ==
    IF i > Len(col) THEN seen
    ELSE unique_from(col, i + 1,
                     IF col[i] \in Range(seen) THEN seen ELSE Append(seen, col[i]))

unique(col) == unique_from(col, 1, <<>>)

\* the missing-value audit shared by the production, price and storage
\* validators: one message per column of df, in column order
RECURSIVE missing_audit_from(_, _, _)
missing_audit_from(r, t, k) ==
    IF k > Len(t.columns) THEN r
    ELSE LET col == t.columns[k]
             count == NullCount(t, col)
             \* pct = count / len(df) * 100, compared as count * 100 vs n * len
             r2 == IF count > 0 /\ count * 100 > 20 * len(t)
                     THEN add_error(r, MsgAbout("missing values", {col}))
                   ELSE IF count > 0 /\ count * 100 > 5 * len(t)
                     THEN add_warning(r, MsgAbout("missing values", {col}))
                   ELSE r
         IN missing_audit_from(r2, t, k + 1)

missing_audit(r, t) == missing_audit_from(r, t, 1)

----------------------------------------------------------------------------
(* validators.py: validate_production_data *)

\* a validator's outcome: the ValidationResult it returns and what it left
\* in the DataFrame object it was handed
Outcome(t, r) == [df |-> t, result |-> r]

production_required_columns == {"date", "region", "quantity_tons"}

validate_production_data(t, clock) ==
    LET r0 == NewValidationResult
        missing_columns == production_required_columns \ Columns(t)
    IN
    IF len(t) = 0 THEN Outcome(t, add_error(r0, Msg("Production data is empty")))
    ELSE IF missing_columns # {}
      THEN Outcome(t, add_error(r0, MsgAbout("Missing required columns",
                                             missing_columns)))
    ELSE IF to_datetime_raises(Column(t, "date"))
      THEN Outcome(t, add_error(r0, Msg("Invalid date format")))
    ELSE
    LET d == SetColumn(t, "date", to_datetime(Column(t, "date")))
        rows == DOMAIN d.rows
        qty == Column(d, "quantity_tons")
        future_dates == {i \in rows : date_gt(d.rows[i].date, clock)}
        r1 == IF future_dates # {}
                THEN add_warning(r0, Msg("records have future dates")) ELSE r0
        invalid_regions == {i \in rows : d.rows[i].region \notin REGIONS}
        r2 == IF invalid_regions # {}
                THEN add_error(r1, MsgAbout("Invalid regions found",
                                 {d.rows[i].region : i \in invalid_regions}))
                ELSE r1
        r3 == IF \E i \in rows : lt(qty[i], 0)
                THEN add_error(r2, Msg("records have negative quantities"))
                ELSE r2
        r4 == IF \E i \in rows : eq(qty[i], 0)
                THEN add_warning(r3, Msg("records have zero quantities"))
                ELSE r3
        q1 == quantile4(qty, 1)
        q3 == quantile4(qty, 3)
        iqr == IF isnull(q1) THEN NaN ELSE q3 - q1
        lower_bound == IF isnull(q1) THEN NaN ELSE q1 - 3 * iqr
        upper_bound == IF isnull(q1) THEN NaN ELSE q3 + 3 * iqr
        outliers == {i \in rows : \/ ~isnull(qty[i]) /\ lt(4 * qty[i], lower_bound)
                                  \/ ~isnull(qty[i]) /\ gt(4 * qty[i], upper_bound)}
        r5 == IF outliers # {}
                THEN add_warning(r4, Msg("potential outliers detected"))
                ELSE r4
        r6 == missing_audit(r5, d)
        r7 == add_info(r6, Msg("Total records"))
        r8 == add_info(r7, Msg("Date range"))
        r9 == add_info(r8, Msg("Regions"))
        r10 == add_info(r9, Msg("Total production"))
    IN Outcome(d, r10)

----------------------------------------------------------------------------
(* validators.py: validate_price_data *)

price_required_columns == {"date", "market", "price_per_kg_tzs", "quality_grade"}

\* df[df['market'] == market].groupby('quality_grade')['price_per_kg_tzs']:
\* the rows of one market and one grade (a missing market equals nothing)
grade_rows(t, market, g) ==
    {i \in DOMAIN t.rows : /\ market # NaNText
                           /\ t.rows[i].market = market
                           /\ t.rows[i].quality_grade = g}

\* mean(a) < mean(b) for two groups of rows of a numeric column; the mean of
\* a group without values is nan and compares False
mean_lt(col, a, b) ==
    LET na == a \cap NotNull(col)
        nb == b \cap NotNull(col)
    IN /\ na # {} /\ nb # {}
       /\ SumSet(col, na) * Cardinality(nb) < SumSet(col, nb) * Cardinality(na)

RECURSIVE grade_hierarchy_from(_, _, _, _)
grade_hierarchy_from(r, t, markets, k) ==
    IF k > Len(markets) THEN r
    ELSE LET market == markets[k]
             price == Column(t, "price_per_kg_tzs")
             A == grade_rows(t, market, "A")
             B == grade_rows(t, market, "B")
             C == grade_rows(t, market, "C")
             r1 == IF A # {} /\ B # {} /\ mean_lt(price, A, B)
                     THEN add_warning(r, MsgAbout("Grade A price lower than Grade B",
                                                  {market}))
                     ELSE r
             r2 == IF B # {} /\ C # {} /\ mean_lt(price, B, C)
                     THEN add_warning(r1, MsgAbout("Grade B price lower than Grade C",
                                                   {market}))
                     ELSE r1
         IN grade_hierarchy_from(r2, t, markets, k + 1)

validate_price_data(t, clock) ==
    LET r0 == NewValidationResult
        missing_columns == price_required_columns \ Columns(t)
    IN
    IF len(t) = 0 THEN Outcome(t, add_error(r0, Msg("Price data is empty")))
    ELSE IF missing_columns # {}
      THEN Outcome(t, add_error(r0, MsgAbout("Missing required columns",
                                             missing_columns)))
    ELSE IF to_datetime_raises(Column(t, "date"))
      THEN Outcome(t, add_error(r0, Msg("Invalid date format")))
    ELSE
    LET d == SetColumn(t, "date", to_datetime(Column(t, "date")))
        rows == DOMAIN d.rows
        price == Column(d, "price_per_kg_tzs")
        future_dates == {i \in rows : date_gt(d.rows[i].date, clock)}
        r1 == IF future_dates # {}
                THEN add_warning(r0, Msg("records have future dates")) ELSE r0
        invalid_markets == {i \in rows : d.rows[i].market \notin MARKETS}
        r2 == IF invalid_markets # {}
                THEN add_error(r1, MsgAbout("Invalid markets found",
                                 {d.rows[i].market : i \in invalid_markets}))
                ELSE r1
        invalid_grades == {i \in rows : d.rows[i].quality_grade \notin QUALITY_GRADES}
        r3 == IF invalid_grades # {}
                THEN add_error(r2, MsgAbout("Invalid quality grades found",
                                 {d.rows[i].quality_grade : i \in invalid_grades}))
                ELSE r2
        r4 == IF \E i \in rows : le(price[i], 0)
                THEN add_error(r3, Msg("records have non-positive prices"))
                ELSE r3
        r5 == IF \E i \in rows : lt(price[i], PRICE_MIN_NORMAL)
                THEN add_warning(r4, Msg("records have unusually low prices"))
                ELSE r4
        r6 == IF \E i \in rows : gt(price[i], PRICE_MAX_NORMAL)
                THEN add_warning(r5, Msg("records have unusually high prices"))
                ELSE r5
        r7 == grade_hierarchy_from(r6, d, unique(Column(d, "market")), 1)
        r8 == missing_audit(r7, d)
        r9 == add_info(r8, Msg("Total records"))
        r10 == add_info(r9, Msg("Date range"))
        r11 == add_info(r10, Msg("Markets"))
        r12 == add_info(r11, Msg("Average price"))
    IN Outcome(d, r12)

----------------------------------------------------------------------------
(* validators.py: validate_storage_data *)

storage_required_columns ==
    {"date", "warehouse_id", "quantity_stored_tons", "capacity_tons"}

\* quantity_stored_tons / capacity_tons * 100 as the fraction n / d:
\* 0 / 0 is nan (as is any operation on nan), x / 0 is +-inf
utilization_cell(stored, capacity) ==
    IF isnull(stored) \/ isnull(capacity) THEN [n |-> 0, d |-> 0]
    ELSE [n |-> stored * 100, d |-> capacity]

\* utilization > x for a fraction cell
utilization_gt(u, x) ==
    \/ u.d > 0 /\ u.n > x * u.d
    \/ u.d < 0 /\ u.n < x * u.d
    \/ u.d = 0 /\ u.n > 0

validate_storage_data(t) ==
    LET r0 == NewValidationResult
        missing_columns == storage_required_columns \ Columns(t)
    IN
    IF len(t) = 0 THEN Outcome(t, add_error(r0, Msg("Storage data is empty")))
    ELSE IF missing_columns # {}
      THEN Outcome(t, add_error(r0, MsgAbout("Missing required columns",
                                             missing_columns)))
    ELSE IF to_datetime_raises(Column(t, "date"))
      THEN Outcome(t, add_error(r0, Msg("Invalid date format")))
    ELSE
    LET d1 == SetColumn(t, "date", to_datetime(Column(t, "date")))
        rows == DOMAIN d1.rows
        stored == Column(d1, "quantity_stored_tons")
        capacity == Column(d1, "capacity_tons")
        r1 == IF \E i \in rows : lt(stored[i], 0)
                THEN add_error(r0, Msg("records have negative storage quantities"))
                ELSE r0
        r2 == IF \E i \in rows : le(capacity[i], 0)
                THEN add_error(r1, Msg("records have non-positive capacity"))
                ELSE r1
        r3 == IF \E i \in rows : gt(stored[i], capacity[i])
                THEN add_warning(r2, Msg("records exceed warehouse capacity"))
                ELSE r2
        d2 == SetColumn(d1, "utilization",
                        [i \in rows |-> utilization_cell(stored[i], capacity[i])])
        r4 == IF \E i \in rows : utilization_gt(d2.rows[i].utilization, 95)
                THEN add_warning(r3, Msg("records show critical high utilization"))
                ELSE r3
        r5 == IF "warehouse_id" \in Columns(d2)
                THEN add_info(r4, Msg("Active warehouses")) ELSE r4
        r6 == missing_audit(r5, d2)
        r7 == add_info(r6, Msg("Total records"))
        r8 == add_info(r7, Msg("Date range"))
        r9 == add_info(r8, Msg("Total stored"))
        r10 == add_info(r9, Msg("Total capacity"))
        r11 == add_info(r10, Msg("Avg utilization"))
    IN Outcome(d2, r11)

----------------------------------------------------------------------------
(* validators.py: validate_forecast_data *)

forecast_required_columns(ftype) ==
    IF ftype = "production"
      THEN {"ds", "yhat", "yhat_lower", "yhat_upper", "region"}
      ELSE {"month", "yhat", "yhat_lower", "yhat_upper", "market", "grade"}

\* the two checks of the confidence interval (lower > upper, yhat outside)
confidence_interval_swapped(r, t) ==
    LET rows == DOMAIN t.rows
        yhat == Column(t, "yhat")
        lower == Column(t, "yhat_lower")
        upper == Column(t, "yhat_upper")
        invalid_ci == {i \in rows : gt(lower[i], upper[i])}
        r1 == IF invalid_ci # {}
                THEN add_warning(r, Msg("forecasts have invalid confidence intervals"))
                ELSE r
        outside_ci == {i \in rows : lt(yhat[i], lower[i]) \/ gt(yhat[i], upper[i])}
    IN IF outside_ci # {}
         THEN add_error(r1, Msg("forecasts fall outside their own confidence intervals"))
         ELSE r1

confidence_interval_checks(r, t) ==
    LET rows == DOMAIN t.rows
        yhat == Column(t, "yhat")
        lower == Column(t, "yhat_lower")
        upper == Column(t, "yhat_upper")
        invalid_ci == {i \in rows : gt(lower[i], upper[i])}
        r1 == IF invalid_ci # {}
                THEN add_error(r, Msg("forecasts have invalid confidence intervals"))
                ELSE r
        outside_ci == {i \in rows : lt(yhat[i], lower[i]) \/ gt(yhat[i], upper[i])}
    IN IF outside_ci # {}
         THEN add_warning(r1, Msg("forecasts fall outside their own confidence intervals"))
         ELSE r1

validate_forecast_data(t, ftype) ==
    LET r0 == NewValidationResult
        missing_columns == forecast_required_columns(ftype) \ Columns(t)
    IN
    IF len(t) = 0 THEN Outcome(t, add_error(r0, Msg("Forecast data is empty")))
    ELSE IF missing_columns # {}
      THEN Outcome(t, add_error(r0, MsgAbout("Missing required columns",
                                             missing_columns)))
    ELSE
    LET rows == DOMAIN t.rows
        yhat == Column(t, "yhat")
        r1 == IF \E i \in rows : lt(yhat[i], 0)
                THEN add_error(r0, Msg("forecasts have negative values"))
                ELSE r0
        r3 == confidence_interval_checks(r1, t)
        r4 == add_info(r3, Msg("Total forecasts"))
        r5 == add_info(r4, Msg("Forecast type"))
        r6 == IF ftype = "production"
                THEN add_info(r5, Msg("Regions covered"))
                ELSE add_info(add_info(r5, Msg("Markets covered")),
                              Msg("Grades covered"))
    IN Outcome(t, r6)

----------------------------------------------------------------------------
(* Input tables.  A table is built from a list of row values; the rows of  *)
(* a table are taken in the order of that list (no validator check depends *)
(* on the order of the rows: every check is a column aggregate).           *)

MakeTable(cols, types, s) ==
    [columns |-> cols, rows |-> [i \in 1..Len(s) |-> types[s[i]]]]

TablesOver(cols, types, n) ==
    {MakeTable(cols, types, s) :
        s \in UNION {SortedSeqs(k, Len(types)) : k \in 0..n}}

\* the tables of at most one row with one column of the file left out
MissingColumnTables(cols, types) ==
    {DropColumn(t, cols[k]) : t \in TablesOver(cols, types, 1), k \in DOMAIN cols}

Past == StrDate(Today - 10)
Future == StrDate(Today + 5)

ProductionColumns == <<"date", "region", "quantity_tons">>

ProductionRow(d, r, q) == [date |-> d, region |-> r, quantity_tons |-> q]

ProductionRows ==
    << ProductionRow(Past, "Mbeya", 1),
       ProductionRow(Past, "Iringa", 9),
       ProductionRow(Past, "Mbeya", 0),
       ProductionRow(Past, "Mbeya", 0 - 1),
       ProductionRow(Past, "Mbeya", NaN),
       ProductionRow(Past, "Atlantis", 1),
       ProductionRow(Past, NaNText, 1),
       ProductionRow(Future, "Mbeya", 1),
       ProductionRow(BadDate, "Mbeya", 1),
       ProductionRow(NaNDate, "Mbeya", 1) >>

\* tables of 20 records of which the first k lack the quantity: 0, 5, 10,
\* 20 and 25 percent of missing values
TallProductionTables ==
    {MakeTable(ProductionColumns, ProductionRows,
               [i \in 1..20 |-> IF i <= k THEN 5 ELSE 1]) : k \in {0, 1, 2, 4, 5}}

ProductionTables ==
    TablesOver(ProductionColumns, ProductionRows, MaxRows)
      \cup MissingColumnTables(ProductionColumns, ProductionRows)
      \cup TallProductionTables

PriceColumns == <<"date", "market", "price_per_kg_tzs", "quality_grade">>

PriceRow(d, m, p, g) ==
    [date |-> d, market |-> m, price_per_kg_tzs |-> p, quality_grade |-> g]

PriceRows ==
    << PriceRow(Past, "Mbeya Central", 1000, "A"),
       PriceRow(Past, "Mbeya Central", 1200, "B"),
       PriceRow(Past, "Mbeya Central", 1000, "C"),
       PriceRow(Past, "Mbeya Central", 1300, "C"),
       PriceRow(Past, "Kariakoo", 900, "B"),
       PriceRow(Past, "Mbeya Central", 500, "A"),
       PriceRow(Past, "Mbeya Central", 3000, "A"),
       PriceRow(Past, "Mbeya Central", 0, "A"),
       PriceRow(Past, "Mbeya Central", NaN, "A"),
       PriceRow(Past, "Atlantis Central", 1000, "A"),
       PriceRow(Past, "Mbeya Central", 1000, "D"),
       PriceRow(Past, NaNText, 1000, "A"),
       PriceRow(BadDate, "Mbeya Central", 1000, "A") >>

PriceTables ==
    TablesOver(PriceColumns, PriceRows, MaxPriceRows)
      \cup MissingColumnTables(PriceColumns, PriceRows)

StorageColumns == <<"date", "warehouse_id", "quantity_stored_tons", "capacity_tons">>

StorageRow(d, w, q, c) ==
    [date |-> d, warehouse_id |-> w, quantity_stored_tons |-> q, capacity_tons |-> c]

StorageRows ==
    << StorageRow(Past, "WH001", 5, 10),
       StorageRow(Past, "WH002", 11, 10),
       StorageRow(Past, "WH002", 10, 10),
       StorageRow(Past, "WH001", 0 - 1, 10),
       StorageRow(Past, "WH001", 5, 0),
       StorageRow(Past, "WH001", NaN, 10),
       StorageRow(Past, "WH001", 5, NaN),
       StorageRow(BadDate, "WH001", 5, 10),
       StorageRow(NaNDate, "WH001", 5, 10) >>

StorageTables ==
    TablesOver(StorageColumns, StorageRows, MaxRows)
      \cup MissingColumnTables(StorageColumns, StorageRows)

ProductionForecastColumns == <<"ds", "yhat", "yhat_lower", "yhat_upper", "region">>

ProductionForecastRow(d, y, lo, hi, r) ==
    [ds |-> d, yhat |-> y, yhat_lower |-> lo, yhat_upper |-> hi, region |-> r]

ProductionForecastRows ==
    << ProductionForecastRow(Future, 1, 0, 2, "Mbeya"),
       ProductionForecastRow(Future, 3, 0, 2, "Mbeya"),
       ProductionForecastRow(Future, 1, 2, 0, "Mbeya"),
       ProductionForecastRow(Future, 0 - 1, 0 - 2, 0, "Mbeya"),
       ProductionForecastRow(Future, 0 - 1, 0, 2, "Mbeya"),
       ProductionForecastRow(Future, NaN, 0, 2, "Mbeya"),
       ProductionForecastRow(Future, 1, 0, 2, NaNText),
       ProductionForecastRow(Future, 1, 0, 2, "Atlantis"),
       ProductionForecastRow(BadDate, 1, 0, 2, "Mbeya") >>

PriceForecastColumns ==
    <<"month", "yhat", "yhat_lower", "yhat_upper", "market", "grade">>

PriceForecastRow(d, y, lo, hi, m, g) ==
    [month |-> d, yhat |-> y, yhat_lower |-> lo, yhat_upper |-> hi,
     market |-> m, grade |-> g]

PriceForecastRows ==
    << PriceForecastRow(Future, 1000, 900, 1100, "Kariakoo", "A"),
       PriceForecastRow(Future, 1200, 900, 1100, "Kariakoo", "A"),
       PriceForecastRow(Future, 1000, 1100, 900, "Kariakoo", "A") >>

ForecastTables ==
    TablesOver(ProductionForecastColumns, ProductionForecastRows, MaxForecastRows)
      \cup MissingColumnTables(ProductionForecastColumns, ProductionForecastRows)
      \cup TablesOver(PriceForecastColumns, PriceForecastRows, MaxForecastRows)

----------------------------------------------------------------------------
(* Values of the variables a specification does not use *)

NoArgs == [fn |-> "none"]
NoFiles ==
    [production |-> NoFile, price |-> NoFile, storage |-> NoFile,
     production_forecasts |-> NoFile, price_forecasts |-> NoFile]
NoResults == <<>>

ObjectIdle == result = NewValidationResult /\ calls = <<>>
ValidatorIdle == df = NoTable /\ df_in = NoTable /\ forecast_type = "production"
BatchIdle == files = NoFiles /\ results = NoResults
AnalyticsIdle == report = NoReport

----------------------------------------------------------------------------
(* SpecResult: a ValidationResult object and the calls of its methods *)

Messages == {Msg("m1"), Msg("m2")}

InitResult ==
    /\ pc = "object"
    /\ result = NewValidationResult
    /\ calls = <<>>
    /\ now = Midnight(Today)
    /\ args = NoArgs
    /\ ValidatorIdle /\ BatchIdle /\ AnalyticsIdle

call_add_error ==
    /\ pc = "object" /\ Len(calls) < MaxCalls
    /\ \E m \in Messages : result' = add_error(result, m)
    /\ calls' = Append(calls, "add_error")
    /\ UNCHANGED <<pc, df, df_in, forecast_type, files, results, now, args, report>>

call_add_warning ==
    /\ pc = "object" /\ Len(calls) < MaxCalls
    /\ \E m \in Messages : result' = add_warning(result, m)
    /\ calls' = Append(calls, "add_warning")
    /\ UNCHANGED <<pc, df, df_in, forecast_type, files, results, now, args, report>>

call_add_info ==
    /\ pc = "object" /\ Len(calls) < MaxCalls
    /\ \E m \in Messages : result' = add_info(result, m)
    /\ calls' = Append(calls, "add_info")
    /\ UNCHANGED <<pc, df, df_in, forecast_type, files, results, now, args, report>>

NextResult == call_add_error \/ call_add_warning \/ call_add_info

SpecResult == InitResult /\ [][NextResult]_vars

----------------------------------------------------------------------------
(* SpecValidators: one call of one validator on one table *)

InitValidators ==
    /\ pc = "call"
    /\ \/ args = [fn |-> "validate_production_data"]
          /\ df \in ProductionTables /\ forecast_type = "production"
       \/ args = [fn |-> "validate_price_data"]
          /\ df \in PriceTables /\ forecast_type = "production"
       \/ args = [fn |-> "validate_storage_data"]
          /\ df \in StorageTables /\ forecast_type = "production"
       \/ args = [fn |-> "validate_forecast_data"]
          /\ df \in ForecastTables /\ forecast_type \in {"production", "price"}
    /\ df_in = df
    /\ now \in Clocks
    /\ ObjectIdle /\ BatchIdle /\ AnalyticsIdle

Return(o) ==
    /\ df' = o.df
    /\ result' = o.result
    /\ pc' = "return"
    /\ UNCHANGED <<calls, df_in, forecast_type, files, results, now, args, report>>

call_validate_production_data ==
    /\ pc = "call" /\ args.fn = "validate_production_data"
    /\ Return(validate_production_data(df, now))

call_validate_price_data ==
    /\ pc = "call" /\ args.fn = "validate_price_data"
    /\ Return(validate_price_data(df, now))

call_validate_storage_data ==
    /\ pc = "call" /\ args.fn = "validate_storage_data"
    /\ Return(validate_storage_data(df))

call_validate_forecast_data ==
    /\ pc = "call" /\ args.fn = "validate_forecast_data"
    /\ Return(validate_forecast_data(df, forecast_type))

NextValidators ==
    \/ call_validate_production_data
    \/ call_validate_price_data
    \/ call_validate_storage_data
    \/ call_validate_forecast_data

SpecValidators == InitValidators /\ [][NextValidators]_vars

----------------------------------------------------------------------------
(* validators.py: validate_all_data *)

\* the result stored by an except branch
load_failure(name) ==
    add_error(NewValidationResult, MsgAbout("Failed to load data", {name}))

\* a batch without the try/except blocks: the first failing load ends it and
\* the later datasets get no result
validate_all_data_unguarded(fs, clock) ==
    LET p == validate_production_data(fs.production.table, clock).result
        q == validate_price_data(fs.price.table, clock).result
        s == validate_storage_data(fs.storage.table).result
    IN IF ~fs.production.exists THEN <<>>
       ELSE IF ~fs.price.exists THEN [production |-> p]
       ELSE IF ~fs.storage.exists THEN [production |-> p, price |-> q]
       ELSE [production |-> p, price |-> q, storage |-> s]

\* pd.read_csv raises when the file does not exist; each dataset has its own
\* try block
validate_all_data(fs, clock) ==
    [production |->
        IF fs.production.exists
          THEN validate_production_data(fs.production.table, clock).result
          ELSE load_failure("production"),
     price |->
        IF fs.price.exists
          THEN validate_price_data(fs.price.table, clock).result
          ELSE load_failure("price"),
     storage |->
        IF fs.storage.exists
          THEN validate_storage_data(fs.storage.table).result
          ELSE load_failure("storage")]

Pick(rows, idx) == [k \in DOMAIN idx |-> rows[idx[k]]]

BatchFileChoices ==
    [production |->
        {NoFile} \cup {File(t) : t \in TablesOver(ProductionColumns,
                          Pick(ProductionRows, <<1, 4, 9>>), MaxBatchRows)},
     price |->
        {NoFile} \cup {File(t) : t \in TablesOver(PriceColumns,
                          Pick(PriceRows, <<1, 8, 13>>), MaxBatchRows)},
     storage |->
        {NoFile} \cup {File(t) : t \in TablesOver(StorageColumns,
                          Pick(StorageRows, <<1, 2, 5>>), MaxBatchRows)}]

Datasets == {"production", "price", "storage"}

InitBatch ==
    /\ pc = "call"
    /\ args = [fn |-> "validate_all_data"]
    /\ \E p \in BatchFileChoices.production, q \in BatchFileChoices.price,
          s \in BatchFileChoices.storage :
          files = [NoFiles EXCEPT !.production = p, !.price = q, !.storage = s]
    /\ results = NoResults
    /\ now \in Clocks
    /\ ObjectIdle /\ ValidatorIdle /\ AnalyticsIdle

call_validate_all_data ==
    /\ pc = "call" /\ args.fn = "validate_all_data"
    /\ results' = validate_all_data(files, now)
    /\ pc' = "return"
    /\ UNCHANGED <<result, calls, df, df_in, forecast_type, files, now, args, report>>

NextBatch == call_validate_all_data

SpecBatch == InitBatch /\ [][NextBatch]_vars

----------------------------------------------------------------------------
(* config.py: periods and display precision *)

\* COMPARISON_PERIODS.get(period, 30)
period_days(period) ==
    CASE period = "current" -> 30
      [] period = "month" -> 30
      [] period = "quarter" -> 90
      [] period = "season" -> 180
      [] period = "year" -> 365
      [] OTHER -> 30

DECIMAL_PLACES == [price |-> 2, quantity |-> 2, percentage |-> 1, utilization |-> 1]

CURRENCY == "TZS"

----------------------------------------------------------------------------
(* Rounded numbers.  A number rounded to k decimal places is kept as the   *)
(* integer number of 10^-k units: a quantity or price (2 places) in        *)
(* hundredths, a percentage or utilization (1 place) in tenths.  round()   *)
(* rounds half to even.                                                    *)

Pow10(k) == IF k = 0 THEN 1 ELSE IF k = 1 THEN 10 ELSE 100

\* round(n / d, 0) for d > 0
round_half_even(n, d) ==
    LET q == n \div d
        r == n % d
    IN IF 2 * r < d THEN q
       ELSE IF 2 * r > d THEN q + 1
       ELSE IF q % 2 = 0 THEN q ELSE q + 1

\* round(n / d, places), in units of 10^-places; nan stays nan
round_ratio(n, d, places) ==
    IF isnull(n) \/ isnull(d) THEN NaN ELSE round_half_even(n * Pow10(places), d)

\* round(x, places) of an integer x
round_int(x, places) == IF isnull(x) THEN NaN ELSE x * Pow10(places)

----------------------------------------------------------------------------
(* core_analytics.py: data loading *)

Raised(e) == [status |-> "raised", error |-> e]
Loaded(t) == [status |-> "ok", table |-> t]

\* load_production_data, load_price_data, load_storage_data: read_csv, then
\* df['date'] = pd.to_datetime(df['date'])
load_data(file) ==
    IF ~file.exists THEN Raised("FileNotFoundError")
    ELSE IF len(file.table) > 0 /\ to_datetime_raises(Column(file.table, "date"))
      THEN Raised("ValueError")
    ELSE Loaded(SetColumn(file.table, "date", to_datetime(Column(file.table, "date"))))

load_production_data(fs) == load_data(fs.production)
load_price_data(fs) == load_data(fs.price)
load_storage_data(fs) == load_data(fs.storage)

\* load_production_forecasts: the summary table, or None when there is no file
load_production_forecasts(fs) ==
    IF fs.production_forecasts.exists
      THEN [present |-> TRUE, table |-> fs.production_forecasts.table]
      ELSE [present |-> FALSE]

\* df[mask]: the rows of t whose mask is True, in their order
Filter(t, mask) ==
    LET I == {i \in DOMAIN t.rows : mask[i]}
        nth(k) == CHOOSE i \in I : Cardinality({j \in I : j < i}) = k - 1
    IN [columns |-> t.columns,
        rows |-> [k \in 1..Cardinality(I) |-> t.rows[nth(k)]]]

\* df['date'] >= t as a boolean Series
date_ge_mask(df_, t) == [i \in DOMAIN df_.rows |-> date_ge(df_.rows[i].date, t)]

\* df['region'] == r as a boolean Series
region_eq_mask(df_, r) == [i \in DOMAIN df_.rows |-> df_.rows[i].region = r]

\* Series.mean() of a numeric column rounded to places; nan for no values
rounded_mean(col, places) ==
    IF NotNull(col) = {} THEN NaN
    ELSE round_ratio(sum(col), Cardinality(NotNull(col)), places)

----------------------------------------------------------------------------
(* core_analytics.py: get_national_summary *)

\* storage_df.sort_values('date').groupby('warehouse_id').last(): for each
\* warehouse the row with the latest date (the input tables hold one record
\* per warehouse and date and no missing cell)
latest_per_warehouse(t) ==
    {i \in DOMAIN t.rows :
        /\ ~isnullText(t.rows[i].warehouse_id)
        /\ \A j \in DOMAIN t.rows :
              t.rows[j].warehouse_id = t.rows[i].warehouse_id
                 => t.rows[j].date.day <= t.rows[i].date.day}

\* numpy division without the guard: x / 0 is nan or inf, never 0
storage_utilization_unguarded(total_stored, total_capacity) ==
    IF total_capacity # 0
      THEN round_ratio(total_stored * 100, total_capacity,
                       DECIMAL_PLACES.utilization)
      ELSE NaN

\* round((total_stored / total_capacity * 100) if total_capacity > 0 else 0, 1)
storage_utilization(total_stored, total_capacity) ==
    IF total_capacity > 0
      THEN round_ratio(total_stored * 100, total_capacity,
                       DECIMAL_PLACES.utilization)
      ELSE 0

get_national_summary(fs, period, clock) ==
    LET production == load_production_data(fs)
        price == load_price_data(fs)
        storage == load_storage_data(fs)
    IN
    IF production.status # "ok" THEN production
    ELSE IF price.status # "ok" THEN price
    ELSE IF storage.status # "ok" THEN storage
    ELSE
    LET production_df == production.table
        price_df == price.table
        storage_df == storage.table
        days == period_days(period)
        cutoff_date == clock - timedelta(days)
        prod_period == Filter(production_df, date_ge_mask(production_df, cutoff_date))
        price_period == Filter(price_df, date_ge_mask(price_df, cutoff_date))
        \* computed and never read: the storage metrics use storage_df
        storage_period == Filter(storage_df, date_ge_mask(storage_df, cutoff_date))
        total_production == sum(Column(prod_period, "quantity_tons"))
        latest_storage == latest_per_warehouse(storage_df)
        total_stored == SumSet(Column(storage_df, "quantity_stored_tons"),
                               latest_storage)
        total_capacity == SumSet(Column(storage_df, "capacity_tons"), latest_storage)
        active_regions == nunique(prod_period, "region")
        active_markets == nunique(price_period, "market")
        active_warehouses == Cardinality(latest_storage)
    IN [status |-> "ok",
        period |-> period,
        period_days |-> days,
        production |->
          [total_tons |-> round_int(total_production, DECIMAL_PLACES.quantity),
           avg_per_region |->
              IF active_regions > 0
                THEN round_ratio(total_production, active_regions,
                                 DECIMAL_PLACES.quantity)
                ELSE 0,
           active_regions |-> active_regions],
        prices |->
          [avg_price_tzs |-> rounded_mean(Column(price_period, "price_per_kg_tzs"),
                                          DECIMAL_PLACES.price),
           currency |-> CURRENCY,
           active_markets |-> active_markets],
        storage |->
          [total_stored_tons |-> round_int(total_stored, DECIMAL_PLACES.quantity),
           total_capacity_tons |-> round_int(total_capacity, DECIMAL_PLACES.quantity),
           utilization_percent |-> storage_utilization(total_stored, total_capacity),
           active_warehouses |-> active_warehouses],
        generated_at |-> clock]

\* Backing files of the national summary
RECURSIVE SlotRows(_, _)
\* the row sequences that fill each of the slots 1..k with no row or with
\* one of the rows choices[k] offers
SlotRows(choices, k) ==
    IF k = 0 THEN {<<>>}
    ELSE LET before == SlotRows(choices, k - 1)
         IN before \cup {Append(s, r) : s \in before, r \in choices[k]}

Ago(n) == StrDate(Today - n)

StorageReadings == {<<5, 10>>, <<8, 10>>, <<3, 0>>}

StorageSlots ==
    << {StorageRow(Ago(400), "WH001", v[1], v[2]) : v \in StorageReadings},
       {StorageRow(Ago(10), "WH001", v[1], v[2]) : v \in StorageReadings},
       {StorageRow(Ago(400), "WH002", v[1], v[2]) : v \in StorageReadings},
       {StorageRow(Ago(10), "WH002", v[1], v[2]) : v \in StorageReadings} >>

NationalStorageFiles ==
    {NoFile} \cup {File([columns |-> StorageColumns, rows |-> s]) :
                      s \in SlotRows(StorageSlots, Len(StorageSlots))}

NationalProductionFiles ==
    {NoFile,
     File([columns |-> ProductionColumns, rows |-> <<>>]),
     File([columns |-> ProductionColumns,
           rows |-> <<ProductionRow(Ago(400), "Mbeya", 7),
                      ProductionRow(Ago(10), "Mbeya", 10),
                      ProductionRow(Ago(10), "Iringa", 5)>>])}

NationalPriceFiles ==
    {NoFile,
     File([columns |-> PriceColumns, rows |-> <<>>]),
     File([columns |-> PriceColumns,
           rows |-> <<PriceRow(Ago(10), "Kariakoo", 1000, "A"),
                      PriceRow(Ago(10), "Mwenge", 1201, "B")>>])}

Periods == {"current", "quarter", "year", "fortnight"}

InitNationalSummary ==
    /\ pc = "call"
    /\ \E period \in Periods : args = [fn |-> "get_national_summary", period |-> period]
    /\ \E p \in NationalProductionFiles, q \in NationalPriceFiles,
          s \in NationalStorageFiles :
          files = [NoFiles EXCEPT !.production = p, !.price = q, !.storage = s]
    /\ now \in Clocks
    /\ report = NoReport
    /\ results = NoResults
    /\ ObjectIdle /\ ValidatorIdle

call_get_national_summary ==
    /\ pc = "call" /\ args.fn = "get_national_summary"
    /\ report' = get_national_summary(files, args.period, now)
    /\ pc' = "return"
    /\ UNCHANGED <<result, calls, df, df_in, forecast_type, files, results, now, args>>

NextNationalSummary == call_get_national_summary

SpecNationalSummary == InitNationalSummary /\ [][NextNationalSummary]_vars

----------------------------------------------------------------------------
(* core_analytics.py: get_production_summary *)

NoRegion == "<None>"        \* region=None

\* date.dt.to_period('M'): the calendar month of a Timestamp
to_period_M(c) ==
    LET ymd == civil_from_days(c.day) IN <<ymd.year, ymd.month>>

\* (current - prior) / prior * 100 if prior > 0 else 0, rounded
growth_percent(current, prior) ==
    IF prior > 0
      THEN round_ratio((current - prior) * 100, prior, DECIMAL_PLACES.percentage)
      ELSE 0

NoComparison == [present |-> FALSE]

\* the forecast comparison of get_production_summary.  With region=None the
\* name region_forecast is read before it was ever assigned: the
\* UnboundLocalError is swallowed by the except branch and the comparison
\* stays None.
production_forecast_comparison(forecasts, region) ==
    IF ~forecasts.present THEN NoComparison
    ELSE IF region = NoRegion THEN NoComparison
    ELSE
    LET forecasts_df == forecasts.table
        region_forecast == Filter(forecasts_df, region_eq_mask(forecasts_df, region))
    IN IF len(region_forecast) > 0
         THEN [present |-> TRUE,
               forecast_avg_tons |->
                  round_int(region_forecast.rows[1].forecast_avg,
                            DECIMAL_PLACES.quantity),
               historical_avg_tons |->
                  round_int(region_forecast.rows[1].historical_avg,
                            DECIMAL_PLACES.quantity),
               growth_percent |-> region_forecast.rows[1].growth_pct]
         ELSE LET forecast_total == sum(Column(forecasts_df, "forecast_avg"))
                  historical_total == sum(Column(forecasts_df, "historical_avg"))
              IN [present |-> TRUE,
                  forecast_avg_tons |->
                     round_int(forecast_total, DECIMAL_PLACES.quantity),
                  historical_avg_tons |->
                     round_int(historical_total, DECIMAL_PLACES.quantity),
                  growth_percent |-> growth_percent(forecast_total, historical_total)]

get_production_summary(fs, region, period, clock) ==
    LET production == load_production_data(fs)
        forecasts_df == load_production_forecasts(fs)
    IN
    IF production.status # "ok" THEN production
    ELSE
    LET production_df ==
            IF region # NoRegion
              THEN Filter(production.table, region_eq_mask(production.table, region))
              ELSE production.table
        days == period_days(period)
        cutoff_date == clock - timedelta(days)
        prod_period == Filter(production_df, date_ge_mask(production_df, cutoff_date))
        total_production == sum(Column(prod_period, "quantity_tons"))
        months == {to_period_M(prod_period.rows[i].date) : i \in DOMAIN prod_period.rows}
        avg_monthly ==
            IF months = {} THEN NaN
            ELSE round_ratio(total_production, Cardinality(months),
                             DECIMAL_PLACES.quantity)
        yoy_cutoff == cutoff_date - timedelta(365)
        yoy_period == Filter(production_df,
                             [i \in DOMAIN production_df.rows |->
                                /\ date_ge(production_df.rows[i].date, yoy_cutoff)
                                /\ date_lt(production_df.rows[i].date, cutoff_date)])
        yoy_production == sum(Column(yoy_period, "quantity_tons"))
        regions == {prod_period.rows[i].region : i \in DOMAIN prod_period.rows}
                      \ {NaNText}
        regional_breakdown ==
            [r \in regions |->
                round_int(sum(Column(Filter(prod_period, region_eq_mask(prod_period, r)),
                                     "quantity_tons")),
                          DECIMAL_PLACES.quantity)]
    IN [status |-> "ok",
        region |-> IF region # NoRegion THEN region ELSE "National",
        period |-> period,
        current_period |->
          [total_production_tons |->
              round_int(total_production, DECIMAL_PLACES.quantity),
           avg_monthly_tons |-> avg_monthly,
           yoy_growth_percent |-> growth_percent(total_production, yoy_production)],
        regional_breakdown |-> regional_breakdown,
        forecast_comparison |-> production_forecast_comparison(forecasts_df, region),
        generated_at |-> clock]

\* Backing files of the production summary
ProductionSlots ==
    << {ProductionRow(Ago(500), "Mbeya", q) : q \in {10, 20}},
       {ProductionRow(Ago(380), "Mbeya", q) : q \in {10, 20}},
       {ProductionRow(Ago(100), "Mbeya", q) : q \in {10, 20}},
       {ProductionRow(Ago(10), "Mbeya", q) : q \in {10, 20}},
       {ProductionRow(Ago(380), "Iringa", 10)},
       {ProductionRow(Ago(10), "Iringa", 10)} >>

SummaryProductionFiles ==
    {NoFile} \cup {File([columns |-> ProductionColumns, rows |-> s]) :
                      s \in SlotRows(ProductionSlots, Len(ProductionSlots))}

ForecastSummaryColumns == <<"region", "historical_avg", "forecast_avg", "growth_pct">>

\* a row of forecast_summary.csv; growth_pct in tenths of a percent
ForecastSummaryRow(r, h, f, g) ==
    [region |-> r, historical_avg |-> h, forecast_avg |-> f, growth_pct |-> g]

ProductionForecastFiles ==
    {NoFile,
     File([columns |-> ForecastSummaryColumns, rows |-> <<>>]),
     File([columns |-> ForecastSummaryColumns,
           rows |-> <<ForecastSummaryRow("Mbeya", 100, 110, 100)>>]),
     File([columns |-> ForecastSummaryColumns,
           rows |-> <<ForecastSummaryRow("Mbeya", 100, 110, 100),
                      ForecastSummaryRow("Iringa", 50, 40, 0 - 200)>>])}

RegionArguments == {NoRegion, "Mbeya", "Iringa"}

InitProductionSummary ==
    /\ pc = "call"
    /\ \E region \in RegionArguments, period \in {"current", "year"} :
          args = [fn |-> "get_production_summary", region |-> region,
                  period |-> period]
    /\ \E p \in SummaryProductionFiles, f \in ProductionForecastFiles :
          files = [NoFiles EXCEPT !.production = p, !.production_forecasts = f]
    /\ now \in Clocks
    /\ report = NoReport
    /\ results = NoResults
    /\ ObjectIdle /\ ValidatorIdle

call_get_production_summary ==
    /\ pc = "call" /\ args.fn = "get_production_summary"
    /\ report' = get_production_summary(files, args.region, args.period, now)
    /\ pc' = "return"
    /\ UNCHANGED <<result, calls, df, df_in, forecast_type, files, results, now, args>>

NextProductionSummary == call_get_production_summary

SpecProductionSummary == InitProductionSummary /\ [][NextProductionSummary]_vars

----------------------------------------------------------------------------
(* core_analytics.py: get_price_analysis *)

NoMarket == "<None>"        \* market=None
NoGrade == "<None>"         \* grade=None

\* a loader that treats the forecast summary as a mandatory file
load_price_forecasts_required(fs) ==
    LET t == fs.price_forecasts.table IN
    IF ~fs.price_forecasts.exists THEN Raised("FileNotFoundError")
    ELSE IF "month" \notin Columns(t)
      THEN [status |-> "ok", present |-> TRUE, table |-> t]
    ELSE IF to_datetime_raises(Column(t, "month")) THEN Raised("ValueError")
    ELSE [status |-> "ok", present |-> TRUE,
          table |-> SetColumn(t, "month", to_datetime(Column(t, "month")))]

\* load_price_forecasts: the summary table with its month column parsed, or
\* None when there is no file
load_price_forecasts(fs) ==
    LET t == fs.price_forecasts.table IN
    IF ~fs.price_forecasts.exists THEN [status |-> "ok", present |-> FALSE]
    ELSE IF "month" \notin Columns(t)
      THEN [status |-> "ok", present |-> TRUE, table |-> t]
    ELSE IF to_datetime_raises(Column(t, "month")) THEN Raised("ValueError")
    ELSE [status |-> "ok", present |-> TRUE,
          table |-> SetColumn(t, "month", to_datetime(Column(t, "month")))]

\* df[c] == v as a boolean Series, for a text column c
text_eq_mask(df_, c, v) == [i \in DOMAIN df_.rows |-> df_.rows[i][c] = v]

\* df[c] == t as a boolean Series, for a datetime column c
date_eq_mask(df_, c, t) ==
    [i \in DOMAIN df_.rows |->
        df_.rows[i][c].kind = "ts" /\ Midnight(df_.rows[i][c].day) = t]

\* Series.min(), Series.max(): nan for no values
min(col) == IF NotNull(col) = {} THEN NaN
            ELSE CHOOSE v \in {col[i] : i \in NotNull(col)} :
                    \A j \in NotNull(col) : v <= col[j]
max(col) == IF NotNull(col) = {} THEN NaN
            ELSE CHOOSE v \in {col[i] : i \in NotNull(col)} :
                    \A j \in NotNull(col) : v >= col[j]

RECURSIVE isqrt_in(_, _, _)
\* the largest r in lo..hi with r * r <= n
isqrt_in(n, lo, hi) ==
    IF lo = hi THEN lo
    ELSE LET mid == (lo + hi + 1) \div 2
         IN IF mid * mid <= n THEN isqrt_in(n, mid, hi) ELSE isqrt_in(n, lo, mid - 1)

\* round(Series.std(), 2) in hundredths: the sample standard deviation
\* sqrt((n * sum(x^2) - sum(x)^2) / (n * (n - 1))); nan for fewer than 2 values
rounded_std(col) ==
    LET I == NotNull(col)
        n == Cardinality(I)
        P == n * SumSet([i \in DOMAIN col |-> col[i] * col[i]], I) - sum(col) * sum(col)
        Q == n * (n - 1)
        u == P \div Q
        v == P % Q
        M == 10000 * u + (10000 * v) \div Q       \* floor of 100^2 * variance
        f == isqrt_in(M, 0, 46340)
        up == \/ f * f + f < M
              \/ f * f + f = M /\ 4 * ((10000 * v) % Q) >= Q
    IN IF n < 2 THEN NaN ELSE IF up THEN f + 1 ELSE f

\* groupby(c)[value].mean(), rounded: group key -> rounded mean
rounded_group_means(t, c, value, places) ==
    [k \in {t.rows[i][c] : i \in DOMAIN t.rows} \ {NaNText} |->
        rounded_mean(Column(Filter(t, text_eq_mask(t, c, k)), value), places)]

\* config.EXPECTED_PREMIUMS, in hundredths
EXPECTED_PREMIUMS == [A |-> 25, B |-> 12, C |-> 0]

\* the premium of a grade price over the base price, both as reported
premium_pct(price, base_price) ==
    IF ~gt(base_price, 0) THEN 0
    ELSE IF isnull(price) THEN NaN
    ELSE round_ratio((price - base_price) * 100, base_price,
                     DECIMAL_PLACES.percentage)

grade_premiums_of(grade_prices) ==
    IF "C" \notin DOMAIN grade_prices THEN [present |-> FALSE]
    ELSE [present |-> TRUE,
          by_grade |->
            [g \in {"A", "B", "C"} \cap DOMAIN grade_prices |->
               [actual_premium_percent |->
                   premium_pct(grade_prices[g], grade_prices["C"]),
                expected_premium_percent |->
                   EXPECTED_PREMIUMS[g] * Pow10(DECIMAL_PLACES.percentage)]]]

\* (datetime.now() + timedelta(days=30)).replace(day=1): the time of day of
\* now is kept
future_month(clock) ==
    LET ymd == civil_from_days((clock + timedelta(30)) \div PerDay)
    IN Midnight(days_from_civil(ymd.year, ymd.month, 1)) + (clock % PerDay)

\* round((forecast_avg - avg_price) / avg_price * 100, 1) if avg_price > 0
\* else 0, for the means of two columns
vs_current(forecast, current) ==
    LET nf == Cardinality(NotNull(forecast))
        nc == Cardinality(NotNull(current))
    IN IF nc = 0 \/ sum(current) <= 0 THEN 0
       ELSE IF nf = 0 THEN NaN
       ELSE round_ratio((sum(forecast) * nc - sum(current) * nf) * 100,
                        sum(current) * nf, DECIMAL_PLACES.percentage)

get_price_analysis(fs, market, grade, clock) ==
    LET price == load_price_data(fs)
        forecasts == load_price_forecasts(fs)
    IN
    IF price.status # "ok" THEN price
    ELSE IF forecasts.status # "ok" THEN forecasts
    ELSE
    LET by_market == IF market # NoMarket
                       THEN Filter(price.table, text_eq_mask(price.table, "market", market))
                       ELSE price.table
        price_df == IF grade # NoGrade
                      THEN Filter(by_market, text_eq_mask(by_market, "quality_grade", grade))
                      ELSE by_market
        cutoff == clock - timedelta(7)
        current_prices == Filter(price_df, date_ge_mask(price_df, cutoff))
        prices == Column(current_prices, "price_per_kg_tzs")
        grade_prices == rounded_group_means(current_prices, "quality_grade",
                                            "price_per_kg_tzs", DECIMAL_PLACES.price)
        forecasts_df == forecasts.table
        needed == {"month"} \cup (IF market # NoMarket THEN {"market"} ELSE {})
                            \cup (IF grade # NoGrade THEN {"grade"} ELSE {})
        of_month == Filter(forecasts_df,
                           date_eq_mask(forecasts_df, "month", future_month(clock)))
        of_market == IF market # NoMarket
                       THEN Filter(of_month, text_eq_mask(of_month, "market", market))
                       ELSE of_month
        forecast_data == IF grade # NoGrade
                           THEN Filter(of_market, text_eq_mask(of_market, "grade", grade))
                           ELSE of_market
    IN
    IF forecasts.present /\ ~(needed \subseteq Columns(forecasts_df))
      THEN Raised("KeyError")
    ELSE IF forecasts.present /\ len(forecast_data) > 0
            /\ "yhat" \notin Columns(forecasts_df)
      THEN Raised("KeyError")
    ELSE
       [status |-> "ok",
        market |-> IF market # NoMarket THEN market ELSE "All Markets",
        grade |-> IF grade # NoGrade THEN grade ELSE "All Grades",
        current_prices |->
          [avg_price_tzs |-> rounded_mean(prices, DECIMAL_PLACES.price),
           min_price_tzs |-> round_int(min(prices), DECIMAL_PLACES.price),
           max_price_tzs |-> round_int(max(prices), DECIMAL_PLACES.price),
           volatility |-> rounded_std(prices),
           currency |-> CURRENCY],
        \* a dict: the descending order of its items is not part of its value
        market_comparison |->
          IF market = NoMarket
            THEN [present |-> TRUE,
                  prices |-> rounded_group_means(current_prices, "market",
                                 "price_per_kg_tzs", DECIMAL_PLACES.price)]
            ELSE [present |-> FALSE],
        grade_analysis |->
          IF grade = NoGrade
            THEN [present |-> TRUE,
                  prices_by_grade |-> grade_prices,
                  grade_premiums |-> grade_premiums_of(grade_prices)]
            ELSE [present |-> FALSE],
        forecast_comparison |->
          IF forecasts.present /\ len(forecast_data) > 0
            THEN [present |-> TRUE,
                  forecast_next_month |->
                     rounded_mean(Column(forecast_data, "yhat"), DECIMAL_PLACES.price),
                  vs_current |-> vs_current(Column(forecast_data, "yhat"), prices)]
            ELSE [present |-> FALSE],
        generated_at |-> clock]


\* Backing files of the price analysis
CurrentPriceSlots ==
    << {PriceRow(Ago(3), "Kariakoo", 995, "C")},
       {PriceRow(Ago(2), "Kariakoo", p, "C") : p \in {995, 1000}},
       {PriceRow(Ago(1), "Mwenge", 996, "C")},
       {PriceRow(Ago(3), "Kariakoo", p, "A") : p \in {1173, 1250}},
       {PriceRow(Ago(2), "Mwenge", 1120, "B")},
       {PriceRow(Ago(7), "Mwenge", 1250, "A")},
       {PriceRow(Ago(30), "Kariakoo", 2000, "A")} >>

\* prices that are not positive
DegeneratePriceSlots ==
    << {PriceRow(Ago(1), "Kariakoo", 0, "C")},
       {PriceRow(Ago(1), "Kariakoo", 10, "A")},
       {PriceRow(Ago(1), "Mwenge", 0, "A")} >>

CurrentPriceFiles ==
    {NoFile}
      \cup {File([columns |-> PriceColumns, rows |-> s]) :
               s \in SlotRows(CurrentPriceSlots, Len(CurrentPriceSlots))}
      \cup {File([columns |-> PriceColumns, rows |-> s]) :
               s \in SlotRows(DegeneratePriceSlots, Len(DegeneratePriceSlots))}

PriceSummaryColumns == <<"month", "market", "grade", "yhat">>

\* a row of forecast_summary_all_markets.csv
PriceSummaryRow(d, m, g, y) == [month |-> d, market |-> m, grade |-> g, yhat |-> y]

NextMonth == StrDate(days_from_civil(2024, 7, 1))

PriceSummaryRows ==
    << PriceSummaryRow(NextMonth, "Kariakoo", "A", 1300),
       PriceSummaryRow(NextMonth, "Mwenge", "A", 1200),
       PriceSummaryRow(StrDate(days_from_civil(2024, 8, 1)), "Kariakoo", "A", 1400) >>

PriceForecastFiles ==
    {NoFile,
     File([columns |-> PriceSummaryColumns, rows |-> <<>>]),
     File([columns |-> PriceSummaryColumns, rows |-> PriceSummaryRows]),
     File(DropColumn([columns |-> PriceSummaryColumns, rows |-> PriceSummaryRows],
                     "month")),
     File([columns |-> PriceSummaryColumns,
           rows |-> <<PriceSummaryRow(BadDate, "Kariakoo", "A", 1300)>>])}

MarketArguments == {NoMarket, "Kariakoo"}
GradeArguments == {NoGrade, "A", "C"}

InitPriceAnalysis ==
    /\ pc = "call"
    /\ \E market \in MarketArguments, grade \in GradeArguments :
          args = [fn |-> "get_price_analysis", market |-> market, grade |-> grade]
    /\ \E p \in CurrentPriceFiles, f \in PriceForecastFiles :
          files = [NoFiles EXCEPT !.price = p, !.price_forecasts = f]
    /\ now \in Clocks
    /\ report = NoReport
    /\ results = NoResults
    /\ ObjectIdle /\ ValidatorIdle

call_get_price_analysis ==
    /\ pc = "call" /\ args.fn = "get_price_analysis"
    /\ report' = get_price_analysis(files, args.market, args.grade, now)
    /\ pc' = "return"
    /\ UNCHANGED <<result, calls, df, df_in, forecast_type, files, results, now, args>>

NextPriceAnalysis == call_get_price_analysis

SpecPriceAnalysis == InitPriceAnalysis /\ [][NextPriceAnalysis]_vars

----------------------------------------------------------------------------
(* core_analytics.py: get_storage_status *)

NoWarehouse == "<None>"     \* warehouse=None

STORAGE_CRITICAL_HIGH == 90
STORAGE_CRITICAL_LOW == 10
STORAGE_OPTIMAL_MIN == 40
STORAGE_OPTIMAL_MAX == 80

Inf == 999999999            \* float inf; 0 - Inf is -inf

\* (stored / capacity * 100).round(1) of a pandas Series, in tenths: a
\* division by 0 gives inf, -inf or (0 / 0) nan and does not raise
utilization_percent(stored, capacity) ==
    IF isnull(stored) \/ isnull(capacity) THEN NaN
    ELSE IF capacity # 0
      THEN round_ratio(stored * 100, capacity, DECIMAL_PLACES.utilization)
    ELSE IF stored > 0 THEN Inf
    ELSE IF stored < 0 THEN 0 - Inf
    ELSE NaN

\* the warehouse ids of the data files, in the order groupby sorts its keys
WarehouseIds == <<"WH001", "WH002", "WH003">>

\* sort_values('date').groupby('warehouse_id').last().reset_index(): one row
\* per warehouse, its latest record, ordered by warehouse id
latest_records(t) ==
    LET last == latest_per_warehouse(t)
        ids == SelectSeq(WarehouseIds,
                         LAMBDA w : \E i \in last : t.rows[i].warehouse_id = w)
    IN [columns |-> <<"warehouse_id">> \o SelectSeq(t.columns,
                        LAMBDA c : c \notin {"warehouse_id"}),
        rows |-> [k \in DOMAIN ids |->
                    t.rows[CHOOSE i \in last : t.rows[i].warehouse_id = ids[k]]]]

\* latest[column] > x, < x, >= x /\ <= y as boolean Series
gt_mask(df_, c, x) == [i \in DOMAIN df_.rows |-> gt(df_.rows[i][c], x)]
lt_mask(df_, c, x) == [i \in DOMAIN df_.rows |-> lt(df_.rows[i][c], x)]
between_mask(df_, c, x, y) ==
    [i \in DOMAIN df_.rows |-> le(x, df_.rows[i][c]) /\ le(df_.rows[i][c], y)]

\* Series.tolist()
tolist(col) == [i \in 1..Len(col) |-> col[i]]

\* alerts.append({...}) of get_storage_status
storage_alert(type, severity, threshold, part) ==
    [type |-> type, severity |-> severity,
     message |-> [count |-> len(part), threshold |-> threshold],
     warehouses |-> tolist(Column(part, "warehouse_id"))]

get_storage_status(fs, warehouse, clock) ==
    LET storage == load_storage_data(fs) IN
    IF storage.status # "ok" THEN storage
    ELSE
    LET by_warehouse == latest_records(storage.table)
        scoped == IF warehouse # NoWarehouse
                    THEN Filter(by_warehouse,
                                text_eq_mask(by_warehouse, "warehouse_id", warehouse))
                    ELSE by_warehouse
        latest == SetColumn(scoped, "utilization_percent",
                     [i \in DOMAIN scoped.rows |->
                        utilization_percent(scoped.rows[i].quantity_stored_tons,
                                            scoped.rows[i].capacity_tons)])
        total_stored == sum(Column(latest, "quantity_stored_tons"))
        total_capacity == sum(Column(latest, "capacity_tons"))
        overstocked == Filter(latest, gt_mask(latest, "utilization_percent",
                                              STORAGE_CRITICAL_HIGH * 10))
        understocked == Filter(latest, lt_mask(latest, "utilization_percent",
                                               STORAGE_CRITICAL_LOW * 10))
        optimal == Filter(latest, between_mask(latest, "utilization_percent",
                              STORAGE_OPTIMAL_MIN * 10, STORAGE_OPTIMAL_MAX * 10))
        status_columns == {"warehouse_id", "region", "quantity_stored_tons",
                           "capacity_tons", "utilization_percent"}
        warehouse_status ==
            [i \in DOMAIN latest.rows |-> [c \in status_columns |-> latest.rows[i][c]]]
        alerts ==
            (IF len(overstocked) > 0
               THEN <<storage_alert("overstocked", "high", STORAGE_CRITICAL_HIGH,
                                    overstocked)>>
               ELSE <<>>)
            \o (IF len(understocked) > 0
                  THEN <<storage_alert("understocked", "medium", STORAGE_CRITICAL_LOW,
                                       understocked)>>
                  ELSE <<>>)
    IN
    IF ~(status_columns \subseteq Columns(latest)) THEN Raised("KeyError")
    ELSE
       [status |-> "ok",
        warehouse |-> IF warehouse # NoWarehouse THEN warehouse ELSE "All Warehouses",
        national_summary |->
          [total_stored_tons |-> round_int(total_stored, DECIMAL_PLACES.quantity),
           total_capacity_tons |-> round_int(total_capacity, DECIMAL_PLACES.quantity),
           utilization_percent |-> storage_utilization(total_stored, total_capacity),
           active_warehouses |-> len(latest)],
        utilization_categories |->
          [optimal |-> len(optimal),
           overstocked |-> len(overstocked),
           understocked |-> len(understocked)],
        \* the list of all warehouses, or the one record of the warehouse asked
        \* for (None when it has no record)
        warehouse_status |->
          IF warehouse = NoWarehouse THEN warehouse_status
          ELSE IF Len(warehouse_status) > 0 THEN <<warehouse_status[1]>>
          ELSE <<>>,
        alerts |-> alerts,
        generated_at |-> clock]

\* Backing files of the storage status
StatusColumns ==
    <<"date", "warehouse_id", "region", "quantity_stored_tons", "capacity_tons">>

StatusRow(d, w, q, c) ==
    [date |-> d, warehouse_id |-> w, region |-> "Mbeya",
     quantity_stored_tons |-> q, capacity_tons |-> c]

StatusSlots ==
    << {StatusRow(Ago(20), "WH001", 5, 100)},
       {StatusRow(Ago(2), "WH001", v[1], v[2]) :
           v \in {<<95, 100>>, <<90, 100>>, <<9004, 10000>>, <<5, 0>>}},
       {StatusRow(Ago(3), "WH002", v[1], v[2]) :
           v \in {<<5, 100>>, <<10, 100>>, <<996, 10000>>}},
       {StatusRow(Ago(1), "WH003", v[1], v[2]) :
           v \in {<<60, 100>>, <<40, 100>>, <<80, 100>>, <<85, 100>>,
                  <<8004, 10000>>, <<0, 0>>}} >>

StatusFiles ==
    {NoFile,
     File([columns |-> StorageColumns, rows |-> <<StorageRow(Ago(1), "WH001", 5, 10)>>])}
      \cup {File([columns |-> StatusColumns, rows |-> s]) :
               s \in SlotRows(StatusSlots, Len(StatusSlots))}

WarehouseArguments == {NoWarehouse, "WH001", "WH003"}

InitStorageStatus ==
    /\ pc = "call"
    /\ \E warehouse \in WarehouseArguments :
          args = [fn |-> "get_storage_status", warehouse |-> warehouse]
    /\ \E s \in StatusFiles : files = [NoFiles EXCEPT !.storage = s]
    /\ now \in Clocks
    /\ report = NoReport
    /\ results = NoResults
    /\ ObjectIdle /\ ValidatorIdle

call_get_storage_status ==
    /\ pc = "call" /\ args.fn = "get_storage_status"
    /\ report' = get_storage_status(files, args.warehouse, now)
    /\ pc' = "return"
    /\ UNCHANGED <<result, calls, df, df_in, forecast_type, files, results, now, args>>

NextStorageStatus == call_get_storage_status

SpecStorageStatus == InitStorageStatus /\ [][NextStorageStatus]_vars

----------------------------------------------------------------------------
(* core_analytics.py: get_seasonal_pattern *)

MASIKA_HARVEST == <<6, 7, 8>>
VULI_HARVEST == <<1, 2>>
LEAN_SEASON == <<3, 4, 5>>

\* config.MASIKA_PRODUCTION_PCT, config.VULI_PRODUCTION_PCT, in hundredths
MASIKA_PRODUCTION_PCT == 65
VULI_PRODUCTION_PCT == 35

\* month_names[month], month in 1..12
month_names ==
    <<"Jan", "Feb", "Mar", "Apr", "May", "Jun",
      "Jul", "Aug", "Sep", "Oct", "Nov", "Dec">>

\* date.dt.month: the calendar month of a Timestamp, nan for NaT
dt_month(c) == IF c.kind = "ts" THEN civil_from_days(c.day).month ELSE NaN

\* the same chain with the lean season tested for months 4 and 5 only
season_type_short_lean(month) ==
    IF month \in Range(MASIKA_HARVEST) THEN "masika_harvest"
    ELSE IF month \in Range(VULI_HARVEST) THEN "vuli_harvest"
    ELSE IF month \in Range(LEAN_SEASON) \ {3} THEN "lean_season"
    ELSE "normal"

\* the if / elif chain of the seasonal calendar
season_type(month) ==
    IF month \in Range(MASIKA_HARVEST) THEN "masika_harvest"
    ELSE IF month \in Range(VULI_HARVEST) THEN "vuli_harvest"
    ELSE IF month \in Range(LEAN_SEASON) THEN "lean_season"
    ELSE "normal"

\* groupby('month')[value].mean(), rounded: month -> rounded mean (rows
\* without a month are left out)
monthly_means(t, value, places) ==
    [m \in {dt_month(t.rows[i].date) : i \in DOMAIN t.rows} \ {NaN} |->
        rounded_mean([i \in {j \in DOMAIN t.rows : dt_month(t.rows[j].date) = m} |->
                         t.rows[i][value]], places)]

\* list(d.keys())[values.index(max(values))]: the first month, in the order
\* of the keys, that holds the largest value (smallest for extreme = "min")
extreme_month(monthly, extreme) ==
    LET best(m) == \A k \in DOMAIN monthly :
                      IF extreme = "max" THEN monthly[k] <= monthly[m]
                      ELSE monthly[k] >= monthly[m]
    IN CHOOSE m \in DOMAIN monthly :
          best(m) /\ \A k \in DOMAIN monthly : best(k) => m <= k

get_seasonal_pattern(fs, crop, clock) ==
    LET production == load_production_data(fs)
        price == load_price_data(fs)
    IN
    IF production.status # "ok" THEN production
    ELSE IF price.status # "ok" THEN price
    ELSE
    LET monthly_production == monthly_means(production.table, "quantity_tons",
                                            DECIMAL_PLACES.quantity)
        monthly_prices == monthly_means(price.table, "price_per_kg_tzs",
                                        DECIMAL_PLACES.price)
    IN
    \* max() and min() of an empty list
    IF DOMAIN monthly_production = {} \/ DOMAIN monthly_prices = {}
      THEN Raised("ValueError")
    ELSE
       [status |-> "ok",
        crop |-> crop,
        seasonal_patterns |->
          [masika_season |->
             [harvest_months |-> [k \in DOMAIN MASIKA_HARVEST |->
                                     month_names[MASIKA_HARVEST[k]]],
              production_share_percent |->
                 MASIKA_PRODUCTION_PCT * Pow10(DECIMAL_PLACES.percentage)],
           vuli_season |->
             [harvest_months |-> [k \in DOMAIN VULI_HARVEST |->
                                     month_names[VULI_HARVEST[k]]],
              production_share_percent |->
                 VULI_PRODUCTION_PCT * Pow10(DECIMAL_PLACES.percentage)],
           lean_season |->
             [months |-> [k \in DOMAIN LEAN_SEASON |-> month_names[LEAN_SEASON[k]]]]],
        monthly_averages |->
          [production |-> monthly_production, prices |-> monthly_prices],
        insights |->
          [peak_production_month |-> month_names[extreme_month(monthly_production, "max")],
           low_production_month |-> month_names[extreme_month(monthly_production, "min")],
           peak_price_month |-> month_names[extreme_month(monthly_prices, "max")],
           low_price_month |-> month_names[extreme_month(monthly_prices, "min")]],
        seasonal_calendar |->
          [name \in Range(month_names) |->
             LET month == CHOOSE m \in 1..12 : month_names[m] = name
             IN [month_number |-> month,
                 season_type |-> season_type(month),
                 avg_production_tons |->
                    IF month \in DOMAIN monthly_production
                      THEN monthly_production[month] ELSE 0,
                 avg_price_tzs |->
                    IF month \in DOMAIN monthly_prices
                      THEN monthly_prices[month] ELSE 0]],
        generated_at |-> clock]

\* Backing files of the seasonal pattern
On(y, m, d) == StrDate(days_from_civil(y, m, d))

SeasonalProductionSlots ==
    << {ProductionRow(On(2023, 6, 20), "Mbeya", 20)},
       {ProductionRow(On(2023, 10, 5), "Mbeya", 5)},
       {ProductionRow(On(2024, 1, 12), "Iringa", q) : q \in {10, 25}},
       {ProductionRow(On(2024, 3, 3), "Mbeya", 10)},
       {ProductionRow(On(2024, 6, 10), "Mbeya", q) : q \in {10, 30}},
       {ProductionRow(NaNDate, "Mbeya", 99)} >>

SeasonalPriceSlots ==
    << {PriceRow(On(2023, 12, 1), "Kariakoo", 1200, "A")},
       {PriceRow(On(2024, 2, 1), "Kariakoo", 1000, "A")},
       {PriceRow(On(2024, 6, 1), "Kariakoo", p, "A") : p \in {900, 1201}} >>

SeasonalProductionFiles ==
    {NoFile} \cup {File([columns |-> ProductionColumns, rows |-> s]) :
                      s \in SlotRows(SeasonalProductionSlots,
                                     Len(SeasonalProductionSlots))}

SeasonalPriceFiles ==
    {NoFile} \cup {File([columns |-> PriceColumns, rows |-> s]) :
                      s \in SlotRows(SeasonalPriceSlots, Len(SeasonalPriceSlots))}

InitSeasonalPattern ==
    /\ pc = "call"
    /\ args = [fn |-> "get_seasonal_pattern", crop |-> "maize"]
    /\ \E p \in SeasonalProductionFiles, q \in SeasonalPriceFiles :
          files = [NoFiles EXCEPT !.production = p, !.price = q]
    /\ now \in Clocks
    /\ report = NoReport
    /\ results = NoResults
    /\ ObjectIdle /\ ValidatorIdle

call_get_seasonal_pattern ==
    /\ pc = "call" /\ args.fn = "get_seasonal_pattern"
    /\ report' = get_seasonal_pattern(files, args.crop, now)
    /\ pc' = "return"
    /\ UNCHANGED <<result, calls, df, df_in, forecast_type, files, results, now, args>>

NextSeasonalPattern == call_get_seasonal_pattern

SpecSeasonalPattern == InitSeasonalPattern /\ [][NextSeasonalPattern]_vars

----------------------------------------------------------------------------
(* core_analytics.py: get_supply_demand_balance *)

\* date.dt.to_period('M') as the ordinal of the month; nan for NaT
month_ordinal(c) ==
    IF c.kind = "ts"
      THEN LET ymd == civil_from_days(c.day) IN ymd.year * 12 + ymd.month - 1
      ELSE NaN

\* the rows of t by month, for the months that occur
rows_by_month(t) ==
    [m \in {month_ordinal(t.rows[i].date) : i \in DOMAIN t.rows} \ {NaN} |->
        {i \in DOMAIN t.rows : month_ordinal(t.rows[i].date) = m}]

\* groupby('month')[value].sum(): month -> sum of the values present
monthly_sum(t, value) ==
    LET by_month == rows_by_month(t)
    IN [m \in DOMAIN by_month |->
          SumSet(Column(t, value), by_month[m] \cap NotNull(Column(t, value)))]

\* the number of values behind groupby('month')[value].mean()
monthly_count(t, value) ==
    LET by_month == rows_by_month(t)
    IN [m \in DOMAIN by_month |->
          Cardinality(by_month[m] \cap NotNull(Column(t, value)))]

\* Series.iloc[-1] of a Series indexed by month: the key of the last month
last_month(series) == CHOOSE m \in DOMAIN series : \A k \in DOMAIN series : k <= m

RECURSIVE ProductOver(_, _)
ProductOver(f, S) ==
    IF S = {} THEN 1
    ELSE LET x == CHOOSE y \in S : TRUE IN f[x] * ProductOver(f, S \ {x})

RECURSIVE gcd(_, _)
gcd(a, b) == IF b = 0 THEN a ELSE gcd(b, a % b)

RECURSIVE GcdOver(_, _)
GcdOver(f, S) ==
    IF S = {} THEN 0
    ELSE LET x == CHOOSE y \in S : TRUE IN gcd(f[x], GcdOver(f, S \ {x}))

\* f shifted to start at 0 and divided by the common divisor of its values:
\* a change of origin and unit, which leaves a correlation as it is
rescaled(f, S) ==
    LET low == CHOOSE v \in {f[x] : x \in S} : \A y \in S : v <= f[y]
        shifted == [x \in S |-> f[x] - low]
        unit == GcdOver(shifted, S)
    IN IF unit = 0 THEN shifted ELSE [x \in S |-> shifted[x] \div unit]

\* round(r, 3) in thousandths, Pearson's r over the observations S:
\* (n sum(xy) - sum(x) sum(y)) / sqrt((n sum(x^2) - sum(x)^2) (n sum(y^2) - sum(y)^2))
\* nan when one of the two is constant
pearson_rescaled(x, y, S) ==
    LET n == Cardinality(S)
        sx == SumSet(x, S)
        sy == SumSet(y, S)
        C == n * SumSet([k \in S |-> x[k] * y[k]], S) - sx * sy
        A == n * SumSet([k \in S |-> x[k] * x[k]], S) - sx * sx
        B == n * SumSet([k \in S |-> y[k] * y[k]], S) - sy * sy
        u == (C * C) \div (A * B)
        v == (C * C) % (A * B)
        M == 1000000 * u + (1000000 * v) \div (A * B)
        f == isqrt_in(M, 0, 1000)
        up == \/ f * f + f < M
              \/ f * f + f = M /\ 4 * ((1000000 * v) % (A * B)) >= A * B
        magnitude == IF up THEN f + 1 ELSE f
    IN [zero |-> A * B # 0 /\ C = 0,
        value |-> IF A * B = 0 THEN NaN
                  ELSE IF C < 0 THEN 0 - magnitude ELSE magnitude]

\* Series.corr of the two series, each rescaled once
pearson(xs, ys, S) ==
    CHOOSE r \in {pearson_rescaled(x, y, S) :
                    x \in {rescaled(xs, S)}, y \in {rescaled(ys, S)}} : TRUE

\* the test 'if price_prod_correlation': None and 0.0 are both false
correlation_is_truthy(correlation) == correlation.present /\ ~correlation.zero

\* current_status with the standard deviation left out of the second test
current_status_below_mean(x) ==
    LET S == DOMAIN x
        n == Cardinality(S)
        total == SumSet(x, S)
        latest == IF n > 0 THEN x[last_month(x)] ELSE 0
    IN IF n > 0 /\ n * latest > total THEN "surplus"
       ELSE IF n > 0 /\ n * latest < total THEN "shortage"
       ELSE "balanced"

\* latest_prod against prod_mean and prod_mean - prod_std, for the monthly
\* totals x: comparisons with a nan mean or nan std are False
current_status(x) ==
    LET S == DOMAIN x
        n == Cardinality(S)
        total == SumSet(x, S)
        latest == IF n > 0 THEN x[last_month(x)] ELSE 0
        P == n * SumSet([k \in S |-> x[k] * x[k]], S) - total * total
    IN IF n > 0 /\ n * latest > total THEN "surplus"
       ELSE IF /\ n > 1
               /\ total - n * latest > 0
               /\ (n - 1) * (total - n * latest) * (total - n * latest) > n * P
         THEN "shortage"
       ELSE "balanced"

\* outlying_months with the months below the mean taken for the shortage
\* periods, however near the mean
outlying_months_below_mean(x, sign) ==
    LET S == DOMAIN x
        n == Cardinality(S)
        total == SumSet(x, S)
        P == n * SumSet([k \in S |-> x[k] * x[k]], S) - total * total
        out == {m \in S : /\ n > 1
                          /\ sign * (n * x[m] - total) > 0
                          /\ \/ sign < 0
                             \/ (n - 1) * (n * x[m] - total) * (n * x[m] - total) > n * P}
    IN [k \in 1..Cardinality(out) |->
          CHOOSE m \in out : Cardinality({j \in out : j < m}) = k - 1]

\* the months whose total lies more than one standard deviation above
\* (sign = 1) or below (sign = -1) the mean, in the order of the months
outlying_months(x, sign) ==
    LET S == DOMAIN x
        n == Cardinality(S)
        total == SumSet(x, S)
        P == n * SumSet([k \in S |-> x[k] * x[k]], S) - total * total
        out == {m \in S : /\ n > 1
                          /\ sign * (n * x[m] - total) > 0
                          /\ (n - 1) * (n * x[m] - total) * (n * x[m] - total) > n * P}
    IN [k \in 1..Cardinality(out) |->
          CHOOSE m \in out : Cardinality({j \in out : j < m}) = k - 1]

\* the report over the monthly series
balance_report(monthly_production, price_sum, price_count, storage_sum, storage_count, clock) ==
    LET \* correlation_df: the months with both a production and a price
        both == {m \in DOMAIN monthly_production \cap DOMAIN price_sum :
                    price_count[m] > 0}
        \* the monthly mean prices over a common denominator
        common == ProductOver(price_count, both)
        monthly_price == [m \in both |-> price_sum[m] * (common \div price_count[m])]
        price_prod_correlation ==
            IF Cardinality(both) > 2
              THEN [present |-> TRUE] @@ pearson(monthly_production, monthly_price, both)
              ELSE [present |-> FALSE, zero |-> FALSE, value |-> NaN]
        n == Cardinality(DOMAIN monthly_production)
    IN [status |-> "ok",
        current_balance |->
          [status |-> current_status(monthly_production),
           production_tons |->
              IF n > 0
                THEN round_int(monthly_production[last_month(monthly_production)],
                               DECIMAL_PLACES.quantity)
                ELSE 0,
           avg_price_tzs |->
              IF DOMAIN price_sum # {}
                THEN IF price_count[last_month(price_sum)] = 0 THEN NaN
                     ELSE round_ratio(price_sum[last_month(price_sum)],
                                      price_count[last_month(price_sum)],
                                      DECIMAL_PLACES.price)
                ELSE 0,
           storage_tons |->
              IF DOMAIN storage_sum # {}
                THEN IF storage_count[last_month(storage_sum)] = 0 THEN NaN
                     ELSE round_ratio(storage_sum[last_month(storage_sum)],
                                      storage_count[last_month(storage_sum)],
                                      DECIMAL_PLACES.quantity)
                ELSE 0],
        correlation_analysis |->
          [price_production_correlation |->
              IF correlation_is_truthy(price_prod_correlation)
                THEN [present |-> TRUE, value |-> price_prod_correlation.value]
                ELSE [present |-> FALSE],
           interpretation |->
              IF /\ correlation_is_truthy(price_prod_correlation)
                 /\ lt(price_prod_correlation.value, 0)
                THEN "Negative correlation expected"
                ELSE "Positive correlation indicates other factors at play"],
        historical_patterns |->
          [surplus_periods |-> outlying_months(monthly_production, 1),
           shortage_periods |-> outlying_months(monthly_production, 0 - 1),
           avg_production |->
              IF n = 0 THEN NaN
              ELSE round_ratio(SumSet(monthly_production, DOMAIN monthly_production),
                               n, DECIMAL_PLACES.quantity),
           production_volatility |-> rounded_std(monthly_production)],
        generated_at |-> clock]

get_supply_demand_balance(fs, clock) ==
    LET production == load_production_data(fs)
        price == load_price_data(fs)
        storage == load_storage_data(fs)
    IN
    IF production.status # "ok" THEN production
    ELSE IF price.status # "ok" THEN price
    ELSE IF storage.status # "ok" THEN storage
    ELSE
    \* the monthly series, each computed once
    CHOOSE r \in
      {balance_report(monthly_production, price_sum, price_count, storage_sum,
                      storage_count, clock) :
          monthly_production \in {monthly_sum(production.table, "quantity_tons")},
          price_sum \in {monthly_sum(price.table, "price_per_kg_tzs")},
          price_count \in {monthly_count(price.table, "price_per_kg_tzs")},
          storage_sum \in {monthly_sum(storage.table, "quantity_stored_tons")},
          storage_count \in {monthly_count(storage.table, "quantity_stored_tons")}} :
      TRUE

\* Backing files of the supply and demand balance
BalanceProductionSlots ==
    << {ProductionRow(On(2024, 2, 10), "Mbeya", q) : q \in {10, 30}},
       {ProductionRow(On(2024, 3, 10), "Mbeya", 30)},
       {ProductionRow(On(2024, 4, 10), "Iringa", q) : q \in {10, 30}},
       {ProductionRow(On(2024, 4, 20), "Mbeya", 10),
        ProductionRow(NaNDate, "Mbeya", 99)},
       {ProductionRow(On(2024, 5, 10), "Mbeya", 10)} >>

BalancePriceSlots ==
    << {PriceRow(On(2024, 2, 1), "Kariakoo", p, "A") : p \in {1000, 1300}},
       {PriceRow(On(2024, 3, 1), "Kariakoo", 1000, "A")},
       {PriceRow(On(2024, 3, 15), "Kariakoo", 1600, "B")},
       {PriceRow(On(2024, 4, 1), "Kariakoo", p, "A") : p \in {1000, 1300}} >>

BalanceStorageRows ==
    << StorageRow(On(2024, 5, 31), "WH001", 8, 10),
       StorageRow(On(2024, 5, 31), "WH002", 3, 10) >>

BalanceProductionFiles ==
    {NoFile} \cup {File([columns |-> ProductionColumns, rows |-> s]) :
                      s \in SlotRows(BalanceProductionSlots,
                                     Len(BalanceProductionSlots))}

BalancePriceFiles ==
    {NoFile} \cup {File([columns |-> PriceColumns, rows |-> s]) :
                      s \in SlotRows(BalancePriceSlots, Len(BalancePriceSlots))}

BalanceStorageFiles ==
    {NoFile, File([columns |-> StorageColumns, rows |-> BalanceStorageRows])}

InitSupplyDemandBalance ==
    /\ pc = "call"
    /\ args = [fn |-> "get_supply_demand_balance"]
    /\ \E p \in BalanceProductionFiles, q \in BalancePriceFiles,
          s \in BalanceStorageFiles :
          files = [NoFiles EXCEPT !.production = p, !.price = q, !.storage = s]
    /\ now \in Clocks
    /\ report = NoReport
    /\ results = NoResults
    /\ ObjectIdle /\ ValidatorIdle

call_get_supply_demand_balance ==
    /\ pc = "call" /\ args.fn = "get_supply_demand_balance"
    /\ report' = get_supply_demand_balance(files, now)
    /\ pc' = "return"
    /\ UNCHANGED <<result, calls, df, df_in, forecast_type, files, results, now, args>>

NextSupplyDemandBalance == call_get_supply_demand_balance

SpecSupplyDemandBalance ==
    InitSupplyDemandBalance /\ [][NextSupplyDemandBalance]_vars

----------------------------------------------------------------------------
(* core_analytics.py: get_market_opportunities *)

\* the market names of the data files, in the order groupby sorts its keys
MarketNames ==
    << "Arusha Central", "Dodoma Central", "Iringa Central", "Kariakoo",
       "Market1", "Market2", "Mbeya Central", "Morogoro Central",
       "Moshi Central", "Mwanza Central", "Mwenge", "Shinyanga Central",
       "Songea Central", "Sumbawanga Central" >>

\* MARKETS[:5]
MARKETS_first_5 ==
    << "Mbeya Central", "Iringa Central", "Songea Central",
       "Sumbawanga Central", "Morogoro Central" >>

\* groupby(c)[value].mean() as exact fractions: group key -> the total and
\* the count of the values present
group_means(t, c, value) ==
    [k \in {t.rows[i][c] : i \in DOMAIN t.rows} \ {NaNText} |->
        LET col == Column(Filter(t, text_eq_mask(t, c, k)), value)
        IN [total |-> sum(col), count |-> Cardinality(NotNull(col))]]

\* a / b * 100 for a = num / den and b = base.total / base.count, rounded;
\* the division of two floats by 0 gives inf, -inf or nan and does not raise
percent_of_mean(num, den, base, places) ==
    IF base.total # 0
      THEN round_ratio(num * base.count * 100, den * base.total, places)
    ELSE IF num > 0 THEN Inf
    ELSE IF num < 0 THEN 0 - Inf
    ELSE NaN

\* a / b * 100 > limit, for the same a and b (b >= 0)
percent_of_mean_gt(num, den, base, limit) ==
    IF base.total # 0
      THEN num * base.count * 100 > limit * den * base.total
      ELSE num > 0

\* a / b * 100 < -limit
percent_of_mean_lt_minus(num, den, base, limit) ==
    IF base.total # 0
      THEN num * base.count * 100 < (0 - limit) * den * base.total
      ELSE num < 0

\* Series.idxmax() (sign = 1) and Series.idxmin() (sign = -1): the first key,
\* in the order of the index, that holds the extreme mean
idx_extreme(means, sign) ==
    LET keys == {k \in DOMAIN means : means[k].count > 0}
        best == {k \in keys : \A j \in keys :
                    sign * (means[k].total * means[j].count
                            - means[j].total * means[k].count) >= 0}
        first == CHOOSE i \in DOMAIN MarketNames :
                    /\ MarketNames[i] \in best
                    /\ \A j \in DOMAIN MarketNames : MarketNames[j] \in best => i <= j
    IN MarketNames[first]

\* the arbitrage label with the thresholds themselves counted in
arbitrage_recommendation_from(num, den, base) ==
    IF base.total = 0
      THEN (IF num > 0 THEN "Strong opportunity" ELSE "Limited opportunity")
    ELSE IF num * base.count * 100 >= 15 * den * base.total THEN "Strong opportunity"
    ELSE IF num * base.count * 100 >= 8 * den * base.total THEN "Moderate opportunity"
    ELSE "Limited opportunity"

\* 'Strong opportunity' if price_gap_pct > 15 else 'Moderate opportunity' if
\* price_gap_pct > 8 else 'Limited opportunity'
arbitrage_recommendation(num, den, base) ==
    IF percent_of_mean_gt(num, den, base, 15) THEN "Strong opportunity"
    ELSE IF percent_of_mean_gt(num, den, base, 8) THEN "Moderate opportunity"
    ELSE "Limited opportunity"

arbitrage_of(market_prices) ==
    LET max_price_market == idx_extreme(market_prices, 1)
        min_price_market == idx_extreme(market_prices, 0 - 1)
        max_price == market_prices[max_price_market]
        min_price == market_prices[min_price_market]
        \* price_gap = gap_num / gap_den
        gap_num == max_price.total * min_price.count - min_price.total * max_price.count
        gap_den == max_price.count * min_price.count
    IN [buy_market |-> min_price_market,
        buy_price_tzs |-> round_ratio(min_price.total, min_price.count,
                                      DECIMAL_PLACES.price),
        sell_market |-> max_price_market,
        sell_price_tzs |-> round_ratio(max_price.total, max_price.count,
                                       DECIMAL_PLACES.price),
        price_gap_tzs |-> round_ratio(gap_num, gap_den, DECIMAL_PLACES.price),
        profit_margin_percent |->
            percent_of_mean(gap_num, gap_den, min_price, DECIMAL_PLACES.percentage),
        recommendation |-> arbitrage_recommendation(gap_num, gap_den, min_price)]

quality_premium_of(grade_prices) ==
    IF "A" \in DOMAIN grade_prices /\ "C" \in DOMAIN grade_prices
      THEN LET grade_a_price == grade_prices["A"]
               grade_c_price == grade_prices["C"]
               num == grade_a_price.total * grade_c_price.count
                        - grade_c_price.total * grade_a_price.count
               den == grade_a_price.count * grade_c_price.count
           IN IF grade_a_price.count = 0 \/ grade_c_price.count = 0
                THEN [present |-> TRUE, grade_c_price_tzs |-> NaN,
                      grade_a_price_tzs |-> NaN, premium_percent |-> NaN,
                      recommendation |-> "Moderate quality focus"]
              ELSE
              [present |-> TRUE,
               grade_c_price_tzs |-> round_ratio(grade_c_price.total, grade_c_price.count,
                                                 DECIMAL_PLACES.price),
               grade_a_price_tzs |-> round_ratio(grade_a_price.total, grade_a_price.count,
                                                 DECIMAL_PLACES.price),
               premium_percent |-> percent_of_mean(num, den, grade_c_price,
                                                   DECIMAL_PLACES.percentage),
               recommendation |->
                  IF percent_of_mean_gt(num, den, grade_c_price, 20)
                    THEN "Invest in quality improvement"
                    ELSE "Moderate quality focus"]
      ELSE [present |-> FALSE]

\* the same chain with the harvest of January and February tested first and
\* taken to last through March
timing_recommendation_long_vuli(current_month) ==
    IF current_month \in Range(VULI_HARVEST) \cup {3}
      THEN [current_period |-> "Vuli harvest", action |-> "SELL MODERATE VOLUMES",
            confidence |-> "Medium"]
    ELSE IF current_month \in Range(LEAN_SEASON)
      THEN [current_period |-> "Lean season", action |-> "SELL NOW",
            confidence |-> "High"]
    ELSE IF current_month \in Range(MASIKA_HARVEST)
      THEN [current_period |-> "Masika harvest", action |-> "HOLD or STORE",
            confidence |-> "High"]
    ELSE [current_period |-> "Normal period", action |-> "MONITOR",
          confidence |-> "Medium"]

\* the timing recommendation of the month of datetime.now()
timing_recommendation_of(current_month) ==
    IF current_month \in Range(LEAN_SEASON)
      THEN [current_period |-> "Lean season", action |-> "SELL NOW",
            confidence |-> "High"]
    ELSE IF current_month \in Range(MASIKA_HARVEST)
      THEN [current_period |-> "Masika harvest", action |-> "HOLD or STORE",
            confidence |-> "High"]
    ELSE IF current_month \in Range(VULI_HARVEST)
      THEN [current_period |-> "Vuli harvest", action |-> "SELL MODERATE VOLUMES",
            confidence |-> "Medium"]
    ELSE [current_period |-> "Normal period", action |-> "MONITOR",
          confidence |-> "Medium"]

\* the entry of one market of MARKETS[:5] in forecast_opportunities, if any
forecast_opportunity(current_prices, forecast_next, market) ==
    LET of_market == Filter(current_prices,
                            text_eq_mask(current_prices, "market", market))
        col == Column(Filter(of_market, text_eq_mask(of_market, "quality_grade", "A")),
                      "price_per_kg_tzs")
        market_current == [total |-> sum(col), count |-> Cardinality(NotNull(col))]
        rows == Filter(Filter(forecast_next,
                              text_eq_mask(forecast_next, "market", market)),
                       text_eq_mask(Filter(forecast_next,
                                           text_eq_mask(forecast_next, "market", market)),
                                    "grade", "A"))
        forecast_price == rows.rows[1].yhat
        num == forecast_price * market_current.count - market_current.total
        den == market_current.count
    IN IF len(rows) > 0 /\ market_current.count > 0 /\ ~isnull(forecast_price)
          /\ (\/ percent_of_mean_gt(num, den, market_current, 5)
              \/ percent_of_mean_lt_minus(num, den, market_current, 5))
         THEN << [market |-> market,
                  current_price |-> round_ratio(market_current.total,
                                                market_current.count,
                                                DECIMAL_PLACES.price),
                  forecast_price |-> round_int(forecast_price, DECIMAL_PLACES.price),
                  change_percent |-> percent_of_mean(num, den, market_current,
                                                     DECIMAL_PLACES.percentage),
                  action |-> IF percent_of_mean_gt(num, den, market_current, 5)
                               THEN "Consider storing"
                               ELSE "Consider selling soon"] >>
         ELSE << >>

RECURSIVE forecast_opportunities_of(_, _, _)
forecast_opportunities_of(current_prices, forecast_next, k) ==
    IF k = 0 THEN << >>
    ELSE forecast_opportunities_of(current_prices, forecast_next, k - 1)
           \o forecast_opportunity(current_prices, forecast_next, MARKETS_first_5[k])

\* the same test with a single market accepted
too_few_markets_below_1(market_prices) == Cardinality(DOMAIN market_prices) < 1

\* len(market_prices) < 2
too_few_markets(market_prices) == Cardinality(DOMAIN market_prices) < 2

InsufficientData == [status |-> "ok", message |-> "Insufficient data for opportunity analysis"]

get_market_opportunities(fs, clock) ==
    LET price == load_price_data(fs)
        forecasts == load_price_forecasts(fs)
    IN
    IF price.status # "ok" THEN price
    ELSE IF forecasts.status # "ok" THEN forecasts
    ELSE
    LET cutoff == clock - timedelta(7)
        current_prices == Filter(price.table, date_ge_mask(price.table, cutoff))
        market_prices ==
            group_means(Filter(current_prices,
                               text_eq_mask(current_prices, "quality_grade", "A")),
                        "market", "price_per_kg_tzs")
        grade_prices == group_means(current_prices, "quality_grade", "price_per_kg_tzs")
        price_forecasts == forecasts.table
        forecast_next == Filter(price_forecasts,
                                date_eq_mask(price_forecasts, "month", future_month(clock)))
        forecast_opportunities ==
            IF forecasts.present
              THEN forecast_opportunities_of(current_prices, forecast_next,
                                             Len(MARKETS_first_5))
              ELSE << >>
    IN
    IF too_few_markets(market_prices) THEN InsufficientData
    ELSE IF forecasts.present
            /\ ~({"month", "market", "grade", "yhat"} \subseteq Columns(price_forecasts))
      THEN Raised("KeyError")
    ELSE
       [status |-> "ok",
        arbitrage_opportunity |-> arbitrage_of(market_prices),
        quality_premium_opportunity |-> quality_premium_of(grade_prices),
        timing_recommendation |->
            timing_recommendation_of(civil_from_days(clock \div PerDay).month),
        forecast_opportunities |->
            IF Len(forecast_opportunities) > 0
              THEN [present |-> TRUE, list |-> forecast_opportunities]
              ELSE [present |-> FALSE],
        generated_at |-> clock]

\* Backing files of the market opportunities
OpportunityPriceSlots ==
    << {PriceRow(Ago(1), "Market1", p, "A") : p \in {1000, 0}},
       {PriceRow(Ago(1), "Market2", p, "A") : p \in {1200, 1080, 1000}},
       {PriceRow(Ago(2), "Market2", 1150, "A")},
       {PriceRow(Ago(7), "Mbeya Central", 1250, "A")},
       {PriceRow(Ago(3), "Iringa Central", p, "C") : p \in {900, 0}},
       {PriceRow(Ago(30), "Market1", 2000, "A")},
       {PriceRow(Ago(2), "Mbeya Central", 1000, "A")} >>

OpportunityPriceFiles ==
    {NoFile} \cup {File([columns |-> PriceColumns, rows |-> s]) :
                      s \in SlotRows(OpportunityPriceSlots, Len(OpportunityPriceSlots))}

OpportunityForecastRows(yhat) ==
    << PriceSummaryRow(NextMonth, "Mbeya Central", "A", yhat),
       PriceSummaryRow(NextMonth, "Mbeya Central", "B", 2000),
       PriceSummaryRow(StrDate(days_from_civil(2024, 8, 1)), "Iringa Central", "A", 1400) >>

OpportunityForecastFiles ==
    {NoFile,
     File(DropColumn([columns |-> PriceSummaryColumns,
                      rows |-> OpportunityForecastRows(1300)], "grade"))}
      \cup {File([columns |-> PriceSummaryColumns, rows |-> OpportunityForecastRows(y)]) :
               y \in {1300, 1040, 900}}

\* Calls in the middle of each month of the year, over prices of the days
\* before
OpportunityDays == {days_from_civil(2024, m, 15) : m \in 1..12}

PriceFilesOfDay(today) ==
    {File([columns |-> PriceColumns,
           rows |-> <<PriceRow(StrDate(today - 1), "Market1", 1000, "A")>>
                      \o others]) :
        others \in {<< >>,
                    <<PriceRow(StrDate(today - 1), "Market2", 1200, "A"),
                      PriceRow(StrDate(today - 2), "Iringa Central", 900, "C")>>}}

InitMarketOpportunities ==
    /\ pc = "call"
    /\ args = [fn |-> "get_market_opportunities"]
    /\ \/ /\ now \in Clocks
          /\ \E p \in OpportunityPriceFiles, f \in OpportunityForecastFiles :
                files = [NoFiles EXCEPT !.price = p, !.price_forecasts = f]
       \/ \E today \in OpportunityDays :
             /\ now \in {Midnight(today), Midnight(today) + 1}
             /\ \E p \in PriceFilesOfDay(today) :
                   files = [NoFiles EXCEPT !.price = p]
    /\ report = NoReport
    /\ results = NoResults
    /\ ObjectIdle /\ ValidatorIdle

call_get_market_opportunities ==
    /\ pc = "call" /\ args.fn = "get_market_opportunities"
    /\ report' = get_market_opportunities(files, now)
    /\ pc' = "return"
    /\ UNCHANGED <<result, calls, df, df_in, forecast_type, files, results, now, args>>

NextMarketOpportunities == call_get_market_opportunities

SpecMarketOpportunities ==
    InitMarketOpportunities /\ [][NextMarketOpportunities]_vars

----------------------------------------------------------------------------
(* core_analytics.py: get_forecast_accuracy *)

EmptyDict == << >>          \* {}

\* regional_metrics: one entry per region of the production forecast
\* summary; a later row of a region replaces the earlier one
regional_metrics(t) ==
    LET regions == {t.rows[i].region : i \in DOMAIN t.rows}
        last(r) == CHOOSE i \in DOMAIN t.rows :
                      /\ t.rows[i].region = r
                      /\ \A j \in DOMAIN t.rows : t.rows[j].region = r => j <= i
    IN [r \in regions |->
          [forecast_avg_tons |->
              round_int(t.rows[last(r)].forecast_avg, DECIMAL_PLACES.quantity),
           historical_avg_tons |->
              round_int(t.rows[last(r)].historical_avg, DECIMAL_PLACES.quantity),
           growth_percent |-> t.rows[last(r)].growth_pct,
           status |-> "active"]]

\* price_forecasts.groupby(['market', 'grade']).size().count(), or 36 when
\* the summary lacks one of the two columns
price_model_count(t) ==
    IF "market" \in Columns(t) /\ "grade" \in Columns(t)
      THEN Cardinality({<<t.rows[i].market, t.rows[i].grade>> : i \in
                          {j \in DOMAIN t.rows : /\ ~isnullText(t.rows[j].market)
                                                 /\ ~isnullText(t.rows[j].grade)}})
      ELSE 36

get_forecast_accuracy(fs, clock) ==
    LET price_forecasts == load_price_forecasts(fs)
        prod_forecasts == load_production_forecasts(fs)
    IN
    IF price_forecasts.status # "ok" THEN price_forecasts
    ELSE IF /\ prod_forecasts.present
            /\ len(prod_forecasts.table) > 0
            /\ ~({"region", "growth_pct", "forecast_avg", "historical_avg"}
                    \subseteq Columns(prod_forecasts.table))
      THEN Raised("KeyError")
    ELSE
    LET by_region == IF prod_forecasts.present
                       THEN regional_metrics(prod_forecasts.table)
                       ELSE EmptyDict
        production_models ==
            IF prod_forecasts.present
              THEN [by_region |-> by_region,
                    model_type |-> "Prophet",
                    status |-> "active",
                    total_models |-> Cardinality(DOMAIN by_region)]
              ELSE EmptyDict
        price_models ==
            IF price_forecasts.present
              THEN [total_models |-> price_model_count(price_forecasts.table),
                    model_type |-> "Prophet",
                    status |-> "active"]
              ELSE EmptyDict
    IN [status |-> "ok",
        production_models |-> production_models,
        price_models |-> price_models,
        overall_performance |->
          [production_models_active |-> Cardinality(DOMAIN by_region),
           price_models_active |->
              IF price_forecasts.present THEN price_models.total_models ELSE 36,
           last_evaluation |-> clock,
           status |-> "All models operational"]]

call_get_forecast_accuracy ==
    /\ pc = "call" /\ args.fn = "get_forecast_accuracy"
    /\ report' = get_forecast_accuracy(files, now)
    /\ pc' = "return"
    /\ UNCHANGED <<result, calls, df, df_in, forecast_type, files, results, now, args>>

----------------------------------------------------------------------------
(* SpecAnalytics: the eight analytics functions over backing files that    *)
(* exist or not, each called again with the same arguments after some time *)

AnalyticsProductionFiles ==
    {NoFile,
     File([columns |-> ProductionColumns,
           rows |-> <<ProductionRow(Ago(10), "Mbeya", 10),
                      ProductionRow(Ago(40), "Iringa", 20)>>])}

AnalyticsPriceFiles ==
    {NoFile,
     File([columns |-> PriceColumns,
           rows |-> <<PriceRow(Ago(2), "Mbeya Central", 1000, "A"),
                      PriceRow(Ago(3), "Kariakoo", 1200, "A"),
                      PriceRow(Ago(40), "Kariakoo", 900, "C")>>])}

AnalyticsStorageFiles ==
    {NoFile,
     File([columns |-> StorageColumns,
           rows |-> <<StorageRow(Ago(1), "WH001", 50, 100)>>])}

AnalyticsProductionForecastFiles ==
    {NoFile,
     File([columns |-> ForecastSummaryColumns,
           rows |-> <<ForecastSummaryRow("Mbeya", 100, 110, 100),
                      ForecastSummaryRow("Iringa", 50, 40, 0 - 200),
                      ForecastSummaryRow("Mbeya", 100, 120, 200)>>])}

AnalyticsPriceForecastFiles ==
    {NoFile,
     File([columns |-> PriceSummaryColumns, rows |-> OpportunityForecastRows(1300)]),
     File(DropColumn([columns |-> PriceSummaryColumns,
                      rows |-> OpportunityForecastRows(1300)], "grade"))}

AnalyticsArguments ==
    {[fn |-> "get_national_summary", period |-> "current"],
     [fn |-> "get_production_summary", region |-> NoRegion, period |-> "current"],
     [fn |-> "get_production_summary", region |-> "Mbeya", period |-> "year"],
     [fn |-> "get_price_analysis", market |-> NoMarket, grade |-> NoGrade],
     [fn |-> "get_price_analysis", market |-> "Mbeya Central", grade |-> "A"],
     [fn |-> "get_storage_status", warehouse |-> NoWarehouse],
     [fn |-> "get_seasonal_pattern", crop |-> "maize"],
     [fn |-> "get_forecast_accuracy"],
     [fn |-> "get_supply_demand_balance"],
     [fn |-> "get_market_opportunities"]}

\* the longest time after which the caller still calls again, in half days
MaxElapsed == 2

\* the time between two calls: half a day, or thirty days
Elapsed == {1, timedelta(30)}

InitAnalytics ==
    /\ pc = "call"
    /\ args \in AnalyticsArguments
    /\ \E p \in AnalyticsProductionFiles, q \in AnalyticsPriceFiles,
          s \in AnalyticsStorageFiles, f \in AnalyticsProductionForecastFiles,
          g \in AnalyticsPriceForecastFiles :
          files = [production |-> p, price |-> q, storage |-> s,
                   production_forecasts |-> f, price_forecasts |-> g]
    /\ now \in Clocks
    /\ report = NoReport
    /\ results = NoResults
    /\ ObjectIdle /\ ValidatorIdle

\* the caller waits and is about to call the same function again
time_passes ==
    /\ pc = "return"
    /\ now < Midnight(Today) + MaxElapsed
    /\ \E d \in Elapsed : now' = now + d
    /\ pc' = "call"
    /\ UNCHANGED <<result, calls, df, df_in, forecast_type, files, results, args, report>>

NextAnalytics ==
    \/ call_get_national_summary
    \/ call_get_production_summary
    \/ call_get_price_analysis
    \/ call_get_storage_status
    \/ call_get_seasonal_pattern
    \/ call_get_forecast_accuracy
    \/ call_get_supply_demand_balance
    \/ call_get_market_opportunities
    \/ time_passes

SpecAnalytics == InitAnalytics /\ [][NextAnalytics]_vars

----------------------------------------------------------------------------
(* Conditions on the table a validator was handed, as the specification    *)
(* words them                                                              *)

required_columns(fn, ftype) ==
    CASE fn = "validate_production_data" -> production_required_columns
      [] fn = "validate_price_data" -> price_required_columns
      [] fn = "validate_storage_data" -> storage_required_columns
      [] fn = "validate_forecast_data" -> forecast_required_columns(ftype)

IsEmpty(t) == len(t) = 0

MissesRequiredColumn(fn, t, ftype) == required_columns(fn, ftype) \ Columns(t) # {}

HasUnparseableDate(t) ==
    \E c \in DateColumns \cap Columns(t) :
        \E i \in DOMAIN t.rows : t.rows[i][c].kind = "bad"

\* some cell of column c satisfies P
SomeCell(t, c, P(_)) == c \in Columns(t) /\ \E i \in DOMAIN t.rows : P(t.rows[i][c])

HasValueOutsideEnum(t) ==
    \/ SomeCell(t, "region", LAMBDA v : v \notin REGIONS)
    \/ SomeCell(t, "market", LAMBDA v : v \notin MARKETS)
    \/ SomeCell(t, "quality_grade", LAMBDA v : v \notin QUALITY_GRADES)
    \/ SomeCell(t, "grade", LAMBDA v : v \notin QUALITY_GRADES)

HasNegativeQuantity(t) ==
    \/ SomeCell(t, "quantity_tons", LAMBDA v : lt(v, 0))
    \/ SomeCell(t, "quantity_stored_tons", LAMBDA v : lt(v, 0))
    \/ SomeCell(t, "yhat", LAMBDA v : lt(v, 0))

HasNonPositivePriceOrCapacity(t) ==
    \/ SomeCell(t, "price_per_kg_tzs", LAMBDA v : le(v, 0))
    \/ SomeCell(t, "capacity_tons", LAMBDA v : le(v, 0))

HasInvertedInterval(t) ==
    /\ {"yhat_lower", "yhat_upper"} \subseteq Columns(t)
    /\ \E i \in DOMAIN t.rows : gt(t.rows[i].yhat_lower, t.rows[i].yhat_upper)

HasColumnMostlyMissing(t) ==
    \E c \in Columns(t) : NullCount(t, c) * 100 > 20 * len(t)

HasMissingValue(t) == \E c \in Columns(t) : NullCount(t, c) > 0

ErrorConditionFires(fn, t, ftype) ==
    \/ IsEmpty(t)
    \/ MissesRequiredColumn(fn, t, ftype)
    \/ HasUnparseableDate(t)
    \/ HasValueOutsideEnum(t)
    \/ HasNegativeQuantity(t)
    \/ HasNonPositivePriceOrCapacity(t)
    \/ HasInvertedInterval(t)
    \/ HasColumnMostlyMissing(t)

\* the three checks after which a validator returns at once
ShortCircuits(fn, t, ftype) ==
    \/ IsEmpty(t)
    \/ MissesRequiredColumn(fn, t, ftype)
    \/ fn # "validate_forecast_data" /\ HasUnparseableDate(t)

Returned(fn) == pc = "return" /\ args.fn = fn

----------------------------------------------------------------------------
(* Claims *)

\* C1: a ValidationResult is valid exactly when add_error was never called
\* on it, i.e. its errors list is empty; a call of add_warning or add_info
\* leaves is_valid() as it was; to_dict()['valid'] equals is_valid().
C1_ValidIffNoError ==
    /\ [](pc = "object" =>
            /\ is_valid(result) <=> (\A i \in DOMAIN calls : calls[i] # "add_error")
            /\ is_valid(result) <=> (result.errors = <<>>)
            /\ to_dict(result).valid = is_valid(result)
            /\ Len(result.errors) + Len(result.warnings) + Len(result.info)
                 = Len(calls))
    /\ [][(pc = "object" /\ calls' # calls
             /\ calls'[Len(calls')] \in {"add_warning", "add_info"})
            => (is_valid(result') <=> is_valid(result))]_vars

C1_Witness ==
    /\ pc = "object"
    /\ \E i \in DOMAIN calls : calls[i] = "add_error"
    /\ \E i \in DOMAIN calls : calls[i] = "add_warning"
    /\ \E i \in DOMAIN calls : calls[i] = "add_info"
    /\ ~is_valid(result)

\* C2: a validator returns an invalid result exactly when the table it was
\* handed triggers one of the listed error conditions.
C2_InvalidIffErrorCondition ==
    pc = "return" =>
        (~is_valid(result) <=> ErrorConditionFires(args.fn, df_in, forecast_type))

StoredAboveCapacity(t) ==
    /\ {"quantity_stored_tons", "capacity_tons"} \subseteq Columns(t)
    /\ \E i \in DOMAIN t.rows :
          gt(t.rows[i].quantity_stored_tons, t.rows[i].capacity_tons)

GradeOrderViolated(t) ==
    /\ {"market", "quality_grade", "price_per_kg_tzs"} \subseteq Columns(t)
    /\ \E i \in DOMAIN t.rows :
          LET m == t.rows[i].market
              price == Column(t, "price_per_kg_tzs")
          IN \/ mean_lt(price, grade_rows(t, m, "A"), grade_rows(t, m, "B"))
             \/ mean_lt(price, grade_rows(t, m, "B"), grade_rows(t, m, "C"))

PriceOutsideNormalRange(t) ==
    SomeCell(t, "price_per_kg_tzs",
             LAMBDA v : gt(v, 0) /\ (v < PRICE_MIN_NORMAL \/ v > PRICE_MAX_NORMAL))

ZeroQuantity(t) == SomeCell(t, "quantity_tons", LAMBDA v : eq(v, 0))

HasOutlier(t) ==
    /\ "quantity_tons" \in Columns(t)
    /\ LET qty == Column(t, "quantity_tons")
           q1 == quantile4(qty, 1)
           q3 == quantile4(qty, 3)
       IN /\ ~isnull(q1)
          /\ \E i \in NotNull(qty) : \/ 4 * qty[i] < q1 - 3 * (q3 - q1)
                                     \/ 4 * qty[i] > q3 + 3 * (q3 - q1)

OnlySoftAnomalies(fn, t) ==
    /\ ~ErrorConditionFires(fn, t, "production")
    /\ ~HasMissingValue(t)

\* C4: a production, price or storage table whose only anomalies are soft
\* (stored above capacity, grade price order, positive price outside
\* [800, 2500], zero quantity, outlier) yields no error and is valid, and each
\* soft anomaly present yields its warning.
C4_SoftViolationsOnlyWarn ==
    (/\ pc = "return"
     /\ args.fn \in {"validate_production_data", "validate_price_data",
                     "validate_storage_data"}
     /\ OnlySoftAnomalies(args.fn, df_in))
    => /\ result.errors = <<>>
       /\ is_valid(result)
       /\ StoredAboveCapacity(df_in) =>
            "records exceed warehouse capacity" \in Kinds(result.warnings)
       /\ GradeOrderViolated(df_in) =>
            Kinds(result.warnings) \cap {"Grade A price lower than Grade B",
                                         "Grade B price lower than Grade C"} # {}
       /\ PriceOutsideNormalRange(df_in) =>
            Kinds(result.warnings) \cap {"records have unusually low prices",
                                         "records have unusually high prices"} # {}
       /\ ZeroQuantity(df_in) =>
            "records have zero quantities" \in Kinds(result.warnings)
       /\ HasOutlier(df_in) =>
            "potential outliers detected" \in Kinds(result.warnings)

C4_Witness ==
    /\ Returned("validate_storage_data")
    /\ OnlySoftAnomalies(args.fn, df_in)
    /\ StoredAboveCapacity(df_in)
    /\ is_valid(result)
    /\ result.warnings # <<>>

C4_WitnessOutlier ==
    /\ Returned("validate_production_data")
    /\ OnlySoftAnomalies(args.fn, df_in)
    /\ HasOutlier(df_in) /\ ZeroQuantity(df_in)
    /\ is_valid(result)

C4_WitnessPrice ==
    /\ Returned("validate_price_data")
    /\ OnlySoftAnomalies(args.fn, df_in)
    /\ GradeOrderViolated(df_in) /\ PriceOutsideNormalRange(df_in)
    /\ is_valid(result)

\* Interval anomalies of a forecast table
YhatOutsideOrderedInterval(t) ==
    /\ {"yhat", "yhat_lower", "yhat_upper"} \subseteq Columns(t)
    /\ \E i \in DOMAIN t.rows :
        /\ le(t.rows[i].yhat_lower, t.rows[i].yhat_upper)
        /\ \/ lt(t.rows[i].yhat, t.rows[i].yhat_lower)
           \/ gt(t.rows[i].yhat, t.rows[i].yhat_upper)

\* C5: in validate_forecast_data a row with yhat_lower > yhat_upper adds an
\* error and makes the dataset invalid; a row whose yhat lies outside a
\* correctly ordered interval adds a warning and no error: the only errors of
\* a checked table are the negative-value and the inverted-interval errors,
\* and a table without such rows is valid.
C5_IntervalSeverity ==
    (/\ Returned("validate_forecast_data")
     /\ ~ShortCircuits(args.fn, df_in, forecast_type))
    => /\ HasInvertedInterval(df_in) <=>
            "forecasts have invalid confidence intervals" \in Kinds(result.errors)
       /\ HasInvertedInterval(df_in) => ~is_valid(result)
       /\ YhatOutsideOrderedInterval(df_in) =>
            "forecasts fall outside their own confidence intervals"
               \in Kinds(result.warnings)
       /\ "forecasts fall outside their own confidence intervals"
               \notin Kinds(result.errors)
       /\ (~HasInvertedInterval(df_in) /\ ~HasNegativeQuantity(df_in))
            => is_valid(result)

C5_Witness ==
    /\ Returned("validate_forecast_data")
    /\ YhatOutsideOrderedInterval(df_in)
    /\ ~HasInvertedInterval(df_in)
    /\ is_valid(result)
    /\ result.warnings # <<>>

\* the validator of one dataset, run alone on a table
validated_alone(k, t, clock) ==
    CASE k = "production" -> validate_production_data(t, clock).result
      [] k = "price" -> validate_price_data(t, clock).result
      [] k = "storage" -> validate_storage_data(t).result

\* C6: validate_all_data returns exactly the keys production, price and
\* storage; a dataset whose load fails gets exactly one error and no warning
\* or info; every other dataset is validated, and its result does not change
\* when the file of another dataset is replaced or removed.
C6_BatchIndependent ==
    pc = "return" =>
        /\ DOMAIN results = Datasets
        /\ \A k \in Datasets :
            /\ ~files[k].exists =>
                 /\ Len(results[k].errors) = 1
                 /\ results[k].errors[1][1] = "Failed to load data"
                 /\ results[k].warnings = <<>>
                 /\ results[k].info = <<>>
            /\ files[k].exists =>
                 results[k] = validated_alone(k, files[k].table, now)
            /\ \A j \in Datasets \ {k} : \A f \in BatchFileChoices[j] :
                 validate_all_data([files EXCEPT ![j] = f], now)[k] = results[k]

C6_Witness ==
    /\ pc = "return"
    /\ ~files.production.exists
    /\ files.price.exists /\ files.storage.exists
    /\ Len(results.production.errors) = 1
    /\ is_valid(results.price) /\ Len(results.price.info) > 0
    /\ ~is_valid(results.storage) /\ Len(results.storage.info) > 0

\* C7: a validator leaves the table it was handed as it was: the same
\* columns and the same cell values.
C7_TableUnchanged == pc = "return" => df = df_in

Abs(x) == IF x < 0 THEN 0 - x ELSE x

AllFilesExist == files.production.exists /\ files.price.exists /\ files.storage.exists

\* C8: get_national_summary does not raise and reports utilization 0 when
\* the summed capacity of the latest-per-warehouse records is 0; otherwise the
\* utilization is total stored / total capacity * 100 (to one decimal place).
C8_ZeroCapacityUtilization ==
    (pc = "return" /\ args.fn = "get_national_summary" /\ AllFilesExist)
    => /\ report.status = "ok"
       /\ LET st == report.storage
          IN /\ st.total_capacity_tons = 0 => st.utilization_percent = 0
             /\ st.total_capacity_tons > 0 =>
                  \* |utilization - stored / capacity * 100| <= 0.05
                  2 * Abs(st.utilization_percent * st.total_capacity_tons
                            - 1000 * st.total_stored_tons)
                     <= st.total_capacity_tons

C8_Witness ==
    /\ pc = "return" /\ args.fn = "get_national_summary"
    /\ report.status = "ok"
    /\ report.storage.active_warehouses > 0
    /\ report.storage.total_stored_tons > 0
    /\ report.storage.total_capacity_tons = 0
    /\ report.storage.utilization_percent = 0

\* the storage records inside the period window, and the latest of them for
\* each warehouse
InWindow(t, clock, days) ==
    {i \in DOMAIN t.rows : Midnight(t.rows[i].date.day) >= clock - timedelta(days)}

LatestInWindow(t, clock, days) ==
    {i \in InWindow(t, clock, days) :
        \A j \in InWindow(t, clock, days) :
            t.rows[j].warehouse_id = t.rows[i].warehouse_id
               => t.rows[j].date.day <= t.rows[i].date.day}

\* C9: the storage totals and the active-warehouse count of
\* get_national_summary come from the records inside the period window only.
C9_StorageWithinWindow ==
    (pc = "return" /\ args.fn = "get_national_summary" /\ report.status = "ok")
    => LET t == files.storage.table
           latest == LatestInWindow(t, now, period_days(args.period))
       IN /\ report.storage.active_warehouses = Cardinality(latest)
          /\ report.storage.total_stored_tons
               = 100 * SumSet(Column(t, "quantity_stored_tons"), latest)
          /\ report.storage.total_capacity_tons
               = 100 * SumSet(Column(t, "capacity_tons"), latest)

\* the production total of the records of the scope dated within [from, to]
ProductionBetween(t, region, from, to) ==
    SumSet(Column(t, "quantity_tons"),
           {i \in DOMAIN t.rows :
               /\ region = NoRegion \/ t.rows[i].region = region
               /\ Midnight(t.rows[i].date.day) >= from
               /\ Midnight(t.rows[i].date.day) <= to})

\* C10: yoy_growth_percent of get_production_summary is
\* (current - prior) / prior * 100 (0 when prior is 0) with current the total
\* of [now - d, now] and prior the total of the same window one year earlier,
\* [now - d - 365, now - 365].
C10_YoYSameWindow ==
    (pc = "return" /\ args.fn = "get_production_summary" /\ report.status = "ok")
    => LET t == files.production.table
           d == period_days(args.period)
           current == ProductionBetween(t, args.region, now - timedelta(d), now)
           prior == ProductionBetween(t, args.region, now - timedelta(d + 365),
                                      now - timedelta(365))
       IN report.current_period.yoy_growth_percent
            = IF prior = 0 THEN 0
              ELSE round_half_even((current - prior) * 1000, prior)

\* the regions with a production record dated within [from, to]
RegionsBetween(t, from, to) ==
    {t.rows[i].region :
        i \in {j \in DOMAIN t.rows : /\ Midnight(t.rows[j].date.day) >= from
                                     /\ Midnight(t.rows[j].date.day) <= to}}

ProductionSummaryReturned ==
    pc = "return" /\ args.fn = "get_production_summary" /\ report.status = "ok"

\* C11: get_production_summary carries no regional breakdown (an empty one)
\* when a region argument is given; without a region the breakdown lists the
\* period total of each region with data in the window.
C11_BreakdownOnlyNational ==
    ProductionSummaryReturned
    => LET t == files.production.table
           d == period_days(args.period)
       IN /\ args.region # NoRegion => DOMAIN report.regional_breakdown = {}
          /\ args.region = NoRegion =>
               /\ DOMAIN report.regional_breakdown
                    = RegionsBetween(t, now - timedelta(d), now)
               /\ \A r \in DOMAIN report.regional_breakdown :
                    report.regional_breakdown[r]
                      = 100 * ProductionBetween(t, r, now - timedelta(d), now)

\* the rows of the forecast summary of one region
ForecastRowsOf(region) ==
    {i \in DOMAIN files.production_forecasts.table.rows :
        files.production_forecasts.table.rows[i].region = region}

\* C12: without a region and with a forecast summary of at least one row,
\* forecast_comparison is present and holds the sums of forecast_avg and
\* historical_avg over all regions and the growth between them.
C12_NationalForecastComparison ==
    (/\ ProductionSummaryReturned
     /\ args.region = NoRegion
     /\ files.production_forecasts.exists
     /\ len(files.production_forecasts.table) > 0)
    => LET f == files.production_forecasts.table
           forecast_total == sum(Column(f, "forecast_avg"))
           historical_total == sum(Column(f, "historical_avg"))
       IN /\ report.forecast_comparison.present
          /\ report.forecast_comparison.forecast_avg_tons = 100 * forecast_total
          /\ report.forecast_comparison.historical_avg_tons = 100 * historical_total
          /\ report.forecast_comparison.growth_percent
               = IF historical_total = 0 THEN 0
                 ELSE round_half_even((forecast_total - historical_total) * 1000,
                                      historical_total)

\* C13: with a region that has no row in the forecast summary, or with no
\* forecast summary file, forecast_comparison is absent.
C13_NoForeignForecast ==
    (/\ ProductionSummaryReturned
     /\ args.region # NoRegion
     /\ \/ ~files.production_forecasts.exists
        \/ ForecastRowsOf(args.region) = {})
    => ~report.forecast_comparison.present


PriceAnalysisReturned ==
    pc = "return" /\ args.fn = "get_price_analysis" /\ report.status = "ok"

\* the price records of grade g in the trailing 7 days, within the market scope
GradeRowsInWindow(g) ==
    LET t == files.price.table
    IN {i \in DOMAIN t.rows :
          /\ t.rows[i].quality_grade = g
          /\ args.market = NoMarket \/ t.rows[i].market = args.market
          /\ Midnight(t.rows[i].date.day) >= now - timedelta(7)}

GradeTotal(g) == SumSet(Column(files.price.table, "price_per_kg_tzs"), GradeRowsInWindow(g))
GradeCount(g) == Cardinality(GradeRowsInWindow(g))

\* the mean price of grade g to 2 decimal places, in hundredths
GradeMeanRounded(g) == round_half_even(GradeTotal(g) * 100, GradeCount(g))

\* C14: without a grade argument, for every grade with price data in the
\* trailing 7 days (grade C present, mean price of C positive)
\* actual_premium_percent is (mean price of g - mean price of C) / mean price
\* of C * 100 to one decimal place and expected_premium_percent is 25, 12, 0;
\* with a grade argument grade_analysis is absent.
C14_PremiumOverMeans ==
    PriceAnalysisReturned
    => /\ args.grade # NoGrade => ~report.grade_analysis.present
       /\ (args.grade = NoGrade /\ GradeTotal("C") > 0) =>
            /\ report.grade_analysis.present
            /\ report.grade_analysis.grade_premiums.present
            /\ \A g \in {h \in QUALITY_GRADES : GradeCount(h) > 0} :
                 LET e == report.grade_analysis.grade_premiums.by_grade[g]
                 IN /\ e.actual_premium_percent
                         = round_half_even(
                             (GradeTotal(g) * GradeCount("C")
                                - GradeTotal("C") * GradeCount(g)) * 1000,
                             GradeTotal("C") * GradeCount(g))
                    /\ e.expected_premium_percent
                         = (CASE g = "A" -> 250 [] g = "B" -> 120 [] g = "C" -> 0)

\* What get_price_analysis computes instead: prices_by_grade holds the mean
\* price of each grade in the trailing 7 days rounded to 2 decimal places;
\* grade_premiums is present exactly when grade C has data, and then for
\* every grade g with data actual_premium_percent is (p_g - p_C) / p_C * 100
\* to one decimal place, p the rounded prices of prices_by_grade, and 0 when
\* p_C is not positive; expected_premium_percent is 25, 12, 0; rounded means
\* 1000 for C and 1250 for A give 25.0.  With a grade argument
\* grade_analysis is absent.
PremiumOverReportedPrices ==
    PriceAnalysisReturned
    => /\ args.grade # NoGrade => ~report.grade_analysis.present
       /\ args.grade = NoGrade =>
            LET ga == report.grade_analysis
                with_data == {h \in QUALITY_GRADES : GradeCount(h) > 0}
            IN /\ ga.present
               /\ DOMAIN ga.prices_by_grade = with_data
               /\ \A g \in with_data : ga.prices_by_grade[g] = GradeMeanRounded(g)
               /\ ga.grade_premiums.present <=> GradeCount("C") > 0
               /\ GradeCount("C") > 0 =>
                    /\ DOMAIN ga.grade_premiums.by_grade = with_data
                    /\ \A g \in with_data :
                         LET e == ga.grade_premiums.by_grade[g]
                             p_g == GradeMeanRounded(g)
                             p_C == GradeMeanRounded("C")
                         IN /\ e.actual_premium_percent
                                 = IF p_C > 0
                                     THEN round_half_even((p_g - p_C) * 1000, p_C)
                                     ELSE 0
                            /\ e.expected_premium_percent
                                 = (CASE g = "A" -> 250 [] g = "B" -> 120
                                      [] g = "C" -> 0)
                            /\ (g = "A" /\ p_C = 100000 /\ p_g = 125000)
                                 => e.actual_premium_percent = 250


StorageStatusReturned ==
    pc = "return" /\ args.fn = "get_storage_status" /\ report.status = "ok"

\* the latest record of each warehouse in the scope of the call: warehouse id
\* -> row of the storage file
LatestRecordOf ==
    LET t == files.storage.table
        in_scope == {t.rows[i].warehouse_id : i \in DOMAIN t.rows}
                       \cap (IF args.warehouse = NoWarehouse THEN Range(WarehouseIds)
                             ELSE {args.warehouse})
    IN [w \in in_scope |->
          t.rows[CHOOSE i \in DOMAIN t.rows :
                    /\ t.rows[i].warehouse_id = w
                    /\ \A j \in DOMAIN t.rows :
                          t.rows[j].warehouse_id = w
                             => t.rows[j].date.day <= t.rows[i].date.day]]

\* the utilization_percent the report shows for warehouse w
ReportedUtilization(w) ==
    LET k == CHOOSE i \in DOMAIN report.warehouse_status :
                report.warehouse_status[i].warehouse_id = w
    IN report.warehouse_status[k].utilization_percent

\* the alerts are one per non-empty partition, overstocked first, with the
\* fixed severities and exactly the ids of the partition
AlertsMatch(over, under) ==
    /\ Len(report.alerts) = (IF over # {} THEN 1 ELSE 0) + (IF under # {} THEN 1 ELSE 0)
    /\ \A k \in DOMAIN report.alerts :
         LET a == report.alerts[k]
         IN \/ /\ a.type = "overstocked" /\ a.severity = "high"
               /\ over # {} /\ Range(a.warehouses) = over
               /\ Len(a.warehouses) = Cardinality(over)
            \/ /\ a.type = "understocked" /\ a.severity = "medium"
               /\ under # {} /\ Range(a.warehouses) = under
               /\ Len(a.warehouses) = Cardinality(under)
    /\ \A j, k \in DOMAIN report.alerts : j # k => report.alerts[j].type # report.alerts[k].type

\* C15: each warehouse's latest record is classified by its
\* utilization stored / capacity * 100 - overstocked above 90, understocked
\* below 10, optimal within [40, 80] - and there is exactly one alert per
\* non-empty overstocked / understocked partition, naming its warehouses.
C15_ClassifiedByUtilization ==
    (StorageStatusReturned
       /\ \A w \in DOMAIN LatestRecordOf : LatestRecordOf[w].capacity_tons > 0)
    => LET r == LatestRecordOf
           over == {w \in DOMAIN r :
                      100 * r[w].quantity_stored_tons > 90 * r[w].capacity_tons}
           under == {w \in DOMAIN r :
                       100 * r[w].quantity_stored_tons < 10 * r[w].capacity_tons}
           optimal == {w \in DOMAIN r :
                         /\ 100 * r[w].quantity_stored_tons >= 40 * r[w].capacity_tons
                         /\ 100 * r[w].quantity_stored_tons <= 80 * r[w].capacity_tons}
       IN /\ report.utilization_categories
               = [optimal |-> Cardinality(optimal), overstocked |-> Cardinality(over),
                  understocked |-> Cardinality(under)]
          /\ AlertsMatch(over, under)

\* What get_storage_status computes instead: the report shows for each
\* warehouse in scope the utilization of its latest record rounded to one
\* decimal place, and the classification goes by that rounded figure
\* (90.04 percent is shown as 90.0 and is not overstocked): overstocked above 90.0,
\* understocked below 10.0, optimal within [40.0, 80.0]; one alert per
\* non-empty overstocked / understocked partition, overstocked (high) before
\* understocked (medium), each naming exactly the ids of its partition.
ClassifiedByReportedUtilization ==
    StorageStatusReturned
    => LET r == LatestRecordOf
           over == {w \in DOMAIN r : gt(ReportedUtilization(w), 900)}
           under == {w \in DOMAIN r : lt(ReportedUtilization(w), 100)}
           optimal == {w \in DOMAIN r : /\ le(400, ReportedUtilization(w))
                                        /\ le(ReportedUtilization(w), 800)}
       IN /\ {report.warehouse_status[i].warehouse_id :
                 i \in DOMAIN report.warehouse_status} = DOMAIN r
          /\ Len(report.warehouse_status) = Cardinality(DOMAIN r)
          /\ \A w \in DOMAIN r :
               r[w].capacity_tons > 0 =>
                  ReportedUtilization(w)
                     = round_half_even(r[w].quantity_stored_tons * 1000,
                                       r[w].capacity_tons)
          /\ report.utilization_categories
               = [optimal |-> Cardinality(optimal), overstocked |-> Cardinality(over),
                  understocked |-> Cardinality(under)]
          /\ AlertsMatch(over, under)
          /\ Len(report.alerts) = 2 => report.alerts[1].type = "overstocked"


\* the file holds at least one record with a date
HasDatedRecord(file) ==
    file.exists /\ \E i \in DOMAIN file.table.rows : file.table.rows[i].date.kind = "str"

\* C16: whenever get_seasonal_pattern returns a report - it does for all
\* production and price data with at least one dated record each - the
\* seasonal_calendar has exactly 12 entries, one per calendar month, and
\* labels months 6, 7, 8 masika_harvest, months 1, 2 vuli_harvest, months
\* 3, 4, 5 lean_season and months 9..12 normal, whatever the data.
C16_SeasonalCalendar ==
    (pc = "return" /\ args.fn = "get_seasonal_pattern")
    => /\ (HasDatedRecord(files.production) /\ HasDatedRecord(files.price))
            => report.status = "ok"
       /\ report.status = "ok" =>
            LET cal == report.seasonal_calendar
            IN /\ Cardinality(DOMAIN cal) = 12
               /\ {cal[n].month_number : n \in DOMAIN cal} = 1..12
               /\ \A n \in DOMAIN cal :
                    LET m == cal[n].month_number
                    IN /\ n = month_names[m]
                       /\ cal[n].season_type
                            = (CASE m \in {6, 7, 8} -> "masika_harvest"
                                 [] m \in {1, 2} -> "vuli_harvest"
                                 [] m \in {3, 4, 5} -> "lean_season"
                                 [] m \in {9, 10, 11, 12} -> "normal")

\* a report over data that covers neither March nor July: both months are
\* labelled all the same
C16_Witness ==
    /\ pc = "return" /\ args.fn = "get_seasonal_pattern"
    /\ report.status = "ok"
    /\ {3, 7} \cap DOMAIN report.monthly_averages.production = {}
    /\ {3, 7} \cap DOMAIN report.monthly_averages.prices = {}
    /\ report.seasonal_calendar["Mar"].season_type = "lean_season"
    /\ report.seasonal_calendar["Jul"].season_type = "masika_harvest"
    /\ report.seasonal_calendar["Jan"].avg_production_tons > 0


----------------------------------------------------------------------------
(* get_supply_demand_balance *)

SupplyDemandReturned ==
    pc = "return" /\ args.fn = "get_supply_demand_balance" /\ report.status = "ok"

\* the dated records of a file
DatedRecords(file) ==
    {i \in DOMAIN file.table.rows : file.table.rows[i].date.kind = "str"}

\* the calendar months with a production record and a price observation
MonthsWithBoth ==
    {to_period_M(files.production.table.rows[i].date) :
        i \in DatedRecords(files.production)}
    \cap
    {to_period_M(files.price.table.rows[i].date) :
        i \in {k \in DatedRecords(files.price) :
                 ~isnull(files.price.table.rows[k].price_per_kg_tzs)}}

\* C17: get_supply_demand_balance reports price_production_correlation as a
\* number exactly when at least 3 months have both a production and a price
\* observation, and as None exactly when fewer than 3 have; a correlation of
\* 0 is a number like any other.
C17_CorrelationReported ==
    SupplyDemandReturned
    => (report.correlation_analysis.price_production_correlation.present
          <=> Cardinality(MonthsWithBoth) >= 3)

\* the total production of month m
MonthlyTotal(m) ==
    LET rows == files.production.table.rows
        I == {i \in DatedRecords(files.production) : to_period_M(rows[i].date) = m}
    IN SumSet([i \in DOMAIN rows |-> rows[i].quantity_tons], I)

ProductionMonths ==
    {to_period_M(files.production.table.rows[i].date) :
        i \in DatedRecords(files.production)}

\* m is the latest of the months with production
IsLatestMonth(m) ==
    /\ m \in ProductionMonths
    /\ \A k \in ProductionMonths : k[1] < m[1] \/ (k[1] = m[1] /\ k[2] <= m[2])

\* n times the distance of x above the mean of the monthly totals
TimesAboveMean(x) ==
    LET S == {<<m, MonthlyTotal(m)>> : m \in ProductionMonths}
    IN Cardinality(S) * x - SumSet([p \in S |-> p[2]], S)

\* x lies more than one sample standard deviation below the mean of the
\* monthly totals: (mean - x)^2 > sum((t - mean)^2) / (n - 1), x < mean,
\* with both sides multiplied by n^2 (n - 1)
MoreThanOneStdBelowMean(x) ==
    LET S == {<<m, MonthlyTotal(m)>> : m \in ProductionMonths}
        n == Cardinality(S)
        squares == SumSet([p \in S |-> (n * p[2] - SumSet([q \in S |-> q[2]], S))
                                        * (n * p[2] - SumSet([q \in S |-> q[2]], S))], S)
    IN /\ n >= 2
       /\ TimesAboveMean(x) < 0
       /\ n * n * (n - 1) * TimesAboveMean(x) * TimesAboveMean(x) > n * n * squares

\* C18: get_supply_demand_balance classifies the latest month as 'surplus'
\* when its production is above the mean monthly production, as 'shortage'
\* when it is more than one standard deviation below the mean, and as
\* 'balanced' in every other case; the status is always one of the three.
C18_CurrentStatus ==
    SupplyDemandReturned
    => /\ report.current_balance.status \in {"surplus", "shortage", "balanced"}
       /\ \A m \in ProductionMonths : IsLatestMonth(m) =>
            report.current_balance.status
              = (IF TimesAboveMean(MonthlyTotal(m)) > 0 THEN "surplus"
                 ELSE IF MoreThanOneStdBelowMean(MonthlyTotal(m)) THEN "shortage"
                 ELSE "balanced")

\* a latest month more than one standard deviation below the mean of three
\* months or more
C18_Witness ==
    /\ SupplyDemandReturned
    /\ Cardinality(ProductionMonths) >= 3
    /\ report.current_balance.status = "shortage"


----------------------------------------------------------------------------
(* get_market_opportunities *)

MarketOpportunitiesReturned ==
    pc = "return" /\ args.fn = "get_market_opportunities" /\ report.status = "ok"

\* the grade-A price records of the last 7 days
RecentGradeA ==
    {i \in DatedRecords(files.price) :
        /\ files.price.table.rows[i].quality_grade = "A"
        /\ Midnight(files.price.table.rows[i].date.day) >= now - timedelta(7)}

MarketsWithRecentGradeA ==
    {files.price.table.rows[i].market : i \in RecentGradeA} \ {NaNText}

\* the price forecasts are absent or hold the columns of a forecast summary
ForecastSummaryWellFormed ==
    files.price_forecasts.exists
      => Range(PriceSummaryColumns) \subseteq Columns(files.price_forecasts.table)

\* C19: get_market_opportunities returns the insufficient-data result - a
\* record with the 'message' field and no arbitrage, premium, timing or
\* forecast section - exactly when fewer than 2 markets have grade-A price
\* records in the last 7 days; with 2 or more it returns the full record.
\* It returns for every price file that loads and well-formed forecasts.
C19_InsufficientData ==
    (pc = "return" /\ args.fn = "get_market_opportunities")
    => /\ (files.price.exists /\ ForecastSummaryWellFormed) => report.status = "ok"
       /\ report.status = "ok" =>
            IF Cardinality(MarketsWithRecentGradeA) < 2
              THEN DOMAIN report = {"status", "message"}
              ELSE DOMAIN report = {"status", "arbitrage_opportunity",
                                    "quality_premium_opportunity",
                                    "timing_recommendation",
                                    "forecast_opportunities", "generated_at"}

\* a single market with grade-A records in the window: insufficient data
C19_Witness ==
    /\ MarketOpportunitiesReturned
    /\ Cardinality(MarketsWithRecentGradeA) = 1
    /\ "message" \in DOMAIN report

\* the total and the number of the recent grade-A prices of market m
RecentTotal(m) ==
    LET rows == files.price.table.rows
    IN SumSet([i \in DOMAIN rows |-> rows[i].price_per_kg_tzs],
              {i \in RecentGradeA : rows[i].market = m})

RecentCount(m) ==
    Cardinality({i \in RecentGradeA : files.price.table.rows[i].market = m})

\* mean(m) - mean(k), times RecentCount(m) * RecentCount(k)
MeanDifference(m, k) ==
    RecentTotal(m) * RecentCount(k) - RecentTotal(k) * RecentCount(m)

\* C20: the arbitrage record names the market with the highest grade-A mean
\* price as sell_market and the one with the lowest as buy_market;
\* price_gap_tzs is the sell mean minus the buy mean (to 2 places),
\* profit_margin_percent is gap / buy mean * 100 (to 1 place) and
\* recommendation is 'Strong opportunity' for a margin > 15, 'Moderate
\* opportunity' for a margin > 8 and <= 15, 'Limited opportunity'
\* otherwise; {Market1: 1000, Market2: 1200} gives sell Market2, buy
\* Market1, gap 200, margin 20.0, 'Strong opportunity'.
C20_Arbitrage ==
    (MarketOpportunitiesReturned /\ "arbitrage_opportunity" \in DOMAIN report)
    => LET a == report.arbitrage_opportunity
           s == a.sell_market
           b == a.buy_market
           gap == MeanDifference(s, b)
           margin_gt(k) == gap * RecentCount(b) * 100
                             > k * RecentCount(s) * RecentCount(b) * RecentTotal(b)
       IN /\ s \in MarketsWithRecentGradeA /\ b \in MarketsWithRecentGradeA
          /\ \A m \in MarketsWithRecentGradeA :
                MeanDifference(s, m) >= 0 /\ MeanDifference(m, b) >= 0
          /\ a.price_gap_tzs
               = round_half_even(gap * 100, RecentCount(s) * RecentCount(b))
          /\ RecentTotal(b) > 0 =>
               /\ a.profit_margin_percent
                    = round_half_even(gap * RecentCount(b) * 1000,
                                      RecentCount(s) * RecentCount(b) * RecentTotal(b))
               /\ a.recommendation
                    = (IF margin_gt(15) THEN "Strong opportunity"
                       ELSE IF margin_gt(8) THEN "Moderate opportunity"
                       ELSE "Limited opportunity")
          /\ ( /\ MarketsWithRecentGradeA = {"Market1", "Market2"}
               /\ RecentTotal("Market1") = 1000 * RecentCount("Market1")
               /\ RecentTotal("Market2") = 1200 * RecentCount("Market2") )
             => /\ s = "Market2" /\ b = "Market1"
                /\ a.price_gap_tzs = 200 * 100
                /\ a.profit_margin_percent = 200
                /\ a.recommendation = "Strong opportunity"

\* Market1 at 1000 and Market2 at 1200 are the markets of the window
C20_Witness ==
    /\ MarketOpportunitiesReturned
    /\ "arbitrage_opportunity" \in DOMAIN report
    /\ MarketsWithRecentGradeA = {"Market1", "Market2"}
    /\ RecentTotal("Market1") = 1000 * RecentCount("Market1")
    /\ RecentTotal("Market2") = 1200 * RecentCount("Market2")
    /\ report.arbitrage_opportunity.recommendation = "Strong opportunity"


\* the calendar month of datetime.now()
CurrentMonth == civil_from_days(now \div PerDay).month

\* C21: in get_market_opportunities the timing recommendation is determined
\* by the current calendar month alone: months 3-5 give 'SELL NOW', months
\* 6-8 'HOLD or STORE', months 1-2 'SELL MODERATE VOLUMES' and months 9-12
\* 'MONITOR'; every month yields exactly one recommendation.
C21_TimingByMonth ==
    (MarketOpportunitiesReturned /\ "timing_recommendation" \in DOMAIN report)
    => /\ CurrentMonth \in 1..12
       /\ report.timing_recommendation.action
            = (CASE CurrentMonth \in 3..5 -> "SELL NOW"
                 [] CurrentMonth \in 6..8 -> "HOLD or STORE"
                 [] CurrentMonth \in 1..2 -> "SELL MODERATE VOLUMES"
                 [] CurrentMonth \in 9..12 -> "MONITOR")

\* a report of December: none of the three seasons
C21_Witness ==
    /\ MarketOpportunitiesReturned
    /\ "timing_recommendation" \in DOMAIN report
    /\ CurrentMonth = 12
    /\ report.timing_recommendation.action = "MONITOR"


\* the current_period that goes with a label of the seasonal calendar
PeriodOfLabel ==
    [lean_season |-> "Lean season", masika_harvest |-> "Masika harvest",
     vuli_harvest |-> "Vuli harvest", normal |-> "Normal period"]

\* C29: the two season classifiers agree for every calendar month although
\* they test the season sets in different orders: the seasonal calendar of
\* get_seasonal_pattern labels a month lean_season / masika_harvest /
\* vuli_harvest / normal exactly when the timing recommendation of
\* get_market_opportunities has the current_period Lean season / Masika
\* harvest / Vuli harvest / Normal period; the configured season sets are
\* pairwise disjoint.
C29_ClassifiersAgree ==
    /\ Range(MASIKA_HARVEST) \cap Range(VULI_HARVEST) = {}
    /\ Range(MASIKA_HARVEST) \cap Range(LEAN_SEASON) = {}
    /\ Range(VULI_HARVEST) \cap Range(LEAN_SEASON) = {}
    /\ \A m \in 1..12 :
          timing_recommendation_of(m).current_period = PeriodOfLabel[season_type(m)]
    /\ (MarketOpportunitiesReturned /\ "timing_recommendation" \in DOMAIN report)
       => report.timing_recommendation.current_period
            = PeriodOfLabel[season_type(CurrentMonth)]

\* a report of March, the first month of the lean season
C29_Witness ==
    /\ MarketOpportunitiesReturned
    /\ "timing_recommendation" \in DOMAIN report
    /\ CurrentMonth = 3
    /\ report.timing_recommendation.current_period = "Lean season"
    /\ season_type(CurrentMonth) = "lean_season"


\* the first day of the calendar month after the current one
FirstOfNextMonth ==
    LET today == civil_from_days(now \div PerDay)
    IN IF today.month = 12 THEN days_from_civil(today.year + 1, 1, 1)
       ELSE days_from_civil(today.year, today.month + 1, 1)

\* the grade-A forecasts of market m for the next month
NextMonthForecasts(m) ==
    LET rows == files.price_forecasts.table.rows
    IN {rows[i].yhat : i \in {k \in DOMAIN rows :
                                /\ rows[k].month.kind = "str"
                                /\ rows[k].month.day = FirstOfNextMonth
                                /\ rows[k].market = m
                                /\ rows[k].grade = "A"
                                /\ ~isnull(rows[k].yhat)}}

\* the forecast f lies more than 5% above (sign = 1) or below (sign = -1)
\* the current grade-A mean of market m
ForecastBeyond(m, f, sign) ==
    sign * (f * RecentCount(m) - RecentTotal(m)) * 100 > 5 * RecentTotal(m)

\* the markets among the first five configured ones with a current grade-A
\* price and a next-month forecast more than 5% away from it
QualifyingMarkets ==
    IF ~files.price_forecasts.exists THEN {}
    ELSE {m \in Range(MARKETS_first_5) :
            /\ RecentCount(m) > 0
            /\ \E f \in NextMonthForecasts(m) :
                  ForecastBeyond(m, f, 1) \/ ForecastBeyond(m, f, 0 - 1)}

\* C22: forecast_opportunities holds one entry for exactly those of the
\* first five configured markets that have a current grade-A price and a
\* next-month grade-A forecast more than 5% away from it - 'Consider
\* storing' above +5%, 'Consider selling soon' below -5% - and is None,
\* never an empty list, when no market qualifies or the price forecasts
\* are missing.
C22_ForecastOpportunities ==
    (MarketOpportunitiesReturned /\ "forecast_opportunities" \in DOMAIN report)
    => LET f == report.forecast_opportunities
       IN IF QualifyingMarkets = {}
            THEN ~f.present
            ELSE /\ f.present
                 /\ Len(f.list) = Cardinality(QualifyingMarkets)
                 /\ {f.list[k].market : k \in DOMAIN f.list} = QualifyingMarkets
                 /\ \A k \in DOMAIN f.list :
                      \E y \in NextMonthForecasts(f.list[k].market) :
                         f.list[k].action
                           = (IF ForecastBeyond(f.list[k].market, y, 1)
                                THEN "Consider storing"
                                ELSE "Consider selling soon")


\* the price records of grade C of the last 7 days
RecentGradeC ==
    {i \in DatedRecords(files.price) :
        /\ files.price.table.rows[i].quality_grade = "C"
        /\ Midnight(files.price.table.rows[i].date.day) >= now - timedelta(7)}

\* C24: a ratio whose denominator is 0 yields 0, and neither raises nor
\* gives an infinite or undefined value; in get_market_opportunities: the
\* arbitrage profit margin with a minimum price of 0 and the grade premium
\* with a grade-C price of 0.
C24_ZeroDenominators ==
    (MarketOpportunitiesReturned /\ "arbitrage_opportunity" \in DOMAIN report)
    => /\ (\E m \in MarketsWithRecentGradeA : RecentTotal(m) = 0)
            => report.arbitrage_opportunity.profit_margin_percent = 0
       /\ ( /\ RecentGradeC # {}
            /\ \A i \in RecentGradeC : files.price.table.rows[i].price_per_kg_tzs = 0 )
            => /\ report.quality_premium_opportunity.present
               /\ report.quality_premium_opportunity.premium_percent = 0


\* the warehouses in scope whose utilization stored / capacity * 100 lies in
\* [10, 40) or in (80, 90]
BetweenCategories ==
    LET r == LatestRecordOf
    IN {w \in DOMAIN r :
          \/ /\ 100 * r[w].quantity_stored_tons >= 10 * r[w].capacity_tons
             /\ 100 * r[w].quantity_stored_tons < 40 * r[w].capacity_tons
          \/ /\ 100 * r[w].quantity_stored_tons > 80 * r[w].capacity_tons
             /\ 100 * r[w].quantity_stored_tons <= 90 * r[w].capacity_tons}

\* C28: in get_storage_status the overstocked, understocked and optimal sets
\* are pairwise disjoint, so optimal + overstocked + understocked <=
\* active_warehouses; they do not cover all warehouses: a warehouse with a
\* utilization in [10, 40) or in (80, 90] is counted in no category and
\* raises no alert.
C28_CategoriesDisjoint ==
    StorageStatusReturned
    => LET c == report.utilization_categories
           counted == c.optimal + c.overstocked + c.understocked
       IN /\ counted <= report.national_summary.active_warehouses
          /\ \A j, k \in DOMAIN report.alerts :
                j # k => Range(report.alerts[j].warehouses)
                           \cap Range(report.alerts[k].warehouses) = {}
          /\ counted <= Cardinality(DOMAIN LatestRecordOf \ BetweenCategories)
          /\ \A k \in DOMAIN report.alerts :
                Range(report.alerts[k].warehouses) \cap BetweenCategories = {}


\* the ordinal of a calendar month <<year, month>>, as the period lists of
\* the report name the months
OrdinalOf(m) == m[1] * 12 + m[2] - 1

\* C30: in get_supply_demand_balance the current status is consistent with
\* the period lists: the status is 'shortage' exactly when the latest month
\* is in shortage_periods; whenever the latest month is in surplus_periods
\* the status is 'surplus'; no month is in both lists.
C30_StatusAndPeriods ==
    SupplyDemandReturned
    => LET h == report.historical_patterns
           status == report.current_balance.status
       IN /\ Range(h.surplus_periods) \cap Range(h.shortage_periods) = {}
          /\ \A m \in ProductionMonths : IsLatestMonth(m) =>
               /\ status = "shortage" <=> OrdinalOf(m) \in Range(h.shortage_periods)
               /\ OrdinalOf(m) \in Range(h.surplus_periods) => status = "surplus"
          /\ ProductionMonths = {} => status # "shortage"

\* the converse for surplus does not hold: a latest month above the mean but
\* within one standard deviation of it is 'surplus' without being a surplus
\* period
C30_Witness ==
    /\ SupplyDemandReturned
    /\ report.current_balance.status = "surplus"
    /\ \E m \in ProductionMonths :
         /\ IsLatestMonth(m)
         /\ OrdinalOf(m) \notin Range(report.historical_patterns.surplus_periods)
    /\ report.historical_patterns.shortage_periods # << >>


\* C26: when one of the short-circuiting checks fails (empty table, missing
\* required column, unparseable date) the validator returns at once: the
\* result holds exactly one error - for missing columns one that names them
\* - and no warning of a later check, whatever else is wrong with the table.
C26_ShortCircuitOneError ==
    (pc = "return" /\ ShortCircuits(args.fn, df_in, forecast_type))
    => /\ Len(result.errors) = 1
       /\ Len(result.warnings) = 0
       /\ (~IsEmpty(df_in) /\ MissesRequiredColumn(args.fn, df_in, forecast_type))
            => result.errors[1]
                 = MsgAbout("Missing required columns",
                            required_columns(args.fn, forecast_type) \ Columns(df_in))

\* a production table with an unparseable date beside a negative quantity
\* and a zero quantity: the later checks would add an error and a warning
C26_Witness ==
    /\ Returned("validate_production_data")
    /\ ~IsEmpty(df_in)
    /\ ~MissesRequiredColumn(args.fn, df_in, forecast_type)
    /\ HasUnparseableDate(df_in)
    /\ \E i \in DOMAIN df_in.rows : lt(df_in.rows[i].quantity_tons, 0)
    /\ \E i \in DOMAIN df_in.rows : eq(df_in.rows[i].quantity_tons, 0)
    /\ Len(result.errors) = 1


\* C27: in the production, price and storage validators the missing-value
\* audit goes by the share m of missing rows of each column: m > 20% adds
\* an error, 5% <= m <= 20% a warning, m < 5% nothing; a column with
\* exactly 5% missing is warned about and one with exactly 20% is a
\* warning, not an error.
C27_MissingValueAudit ==
    ( /\ pc = "return"
      /\ args.fn \in {"validate_production_data", "validate_price_data",
                      "validate_storage_data"}
      /\ ~ShortCircuits(args.fn, df_in, forecast_type) )
    => \A c \in Columns(df_in) :
          LET missing == NullCount(df_in, c)
              message == MsgAbout("missing values", {c})
          IN IF 100 * missing > 20 * len(df_in)
               THEN message \in Range(result.errors)
             ELSE IF 100 * missing >= 5 * len(df_in)
               THEN /\ message \in Range(result.warnings)
                    /\ message \notin Range(result.errors)
             ELSE /\ message \notin Range(result.warnings)
                  /\ message \notin Range(result.errors)


\* the mandatory dataset files a function loads, and the forecast summary
\* files it reads a section of its report from
MandatoryFilesOf(fn) ==
    CASE fn = "get_national_summary" -> {"production", "price", "storage"}
      [] fn = "get_production_summary" -> {"production"}
      [] fn = "get_price_analysis" -> {"price"}
      [] fn = "get_storage_status" -> {"storage"}
      [] fn = "get_seasonal_pattern" -> {"production", "price"}
      [] fn = "get_forecast_accuracy" -> {}
      [] fn = "get_supply_demand_balance" -> {"production", "price", "storage"}
      [] fn = "get_market_opportunities" -> {"price"}

ForecastFilesOf(fn) ==
    CASE fn = "get_production_summary" -> {"production_forecasts"}
      [] fn = "get_price_analysis" -> {"price_forecasts"}
      [] fn = "get_forecast_accuracy" -> {"production_forecasts", "price_forecasts"}
      [] fn = "get_market_opportunities" -> {"price_forecasts"}
      [] OTHER -> {}

\* the section of the report of fn that is read from forecast file f is
\* absent: None, or an empty record
ForecastSectionAbsent(fn, f) ==
    CASE fn = "get_production_summary" -> ~report.forecast_comparison.present
      [] fn = "get_price_analysis" -> ~report.forecast_comparison.present
      [] fn = "get_market_opportunities" ->
            \/ "forecast_opportunities" \notin DOMAIN report
            \/ ~report.forecast_opportunities.present
      [] fn = "get_forecast_accuracy" /\ f = "production_forecasts" ->
            DOMAIN report.production_models = {}
      [] fn = "get_forecast_accuracy" /\ f = "price_forecasts" ->
            DOMAIN report.price_models = {}

C23_Idempotent ==
    [][(pc = "call" /\ report # NoReport /\ pc' = "return") => report' = report]_vars

=============================================================================
